---- MODULE Spec2Model ----
(***************************************************************************)
(* Model of the migration orchestration core of the ITGlue -> SuperOps     *)
(* migrator: migrator/core/orchestrator.py driving migrator/core/          *)
(* database.py (the state store) and the remote gateway.                   *)
(*                                                                         *)
(* One process runs one migrate() invocation (cli._run_migration builds a  *)
(* fresh MigrationOrchestrator per command).  The state store and the      *)
(* remote service survive the process; everything else is lost with it.    *)
(*                                                                         *)
(* Granularity: every action is "resume after the previous await, run the  *)
(* synchronous code, take the effect of the next await".  A unit's pc      *)
(* names the await whose effect is still to come.  A cancellation can      *)
(* fall between any two actions.                                           *)
(*                                                                         *)
(* Spec follows the life of one run: one invocation without resume, then   *)
(* any number of invocations with resume, over a source index whose        *)
(* documents carry no attachments (the transformer's attachments list is   *)
(* empty, so _upload_attachments is not entered).  The collection of the   *)
(* articles exists remotely and the process starts with it in its caches,  *)
(* so its look-up is not followed under Spec.  migrate() is called without *)
(* a filter pattern.  The error_log column is left out: nothing below      *)
(* reads it.                                                               *)
(*                                                                         *)
(* SpecFirst follows the first invocation alone, from empty caches, with   *)
(* the look-up and the creation of the collection followed step by step.   *)
(* SpecRuns follows several new runs of one installation (no resume).      *)
(* SpecUpload follows the attachments one process handles, with the upload *)
(* client and its cache.  SpecLimiter follows the gateway's RateLimiter    *)
(* and the clock.  SpecGateway follows the gateway's _execute with its     *)
(* retries and the limiter.  SpecBreaker follows the CircuitBreaker of the *)
(* ErrorHandler, SpecStore the documents table under add, update and       *)
(* select, SpecListing one check_article_exists over a remote listing.     *)
(* SpecStats follows get_statistics beside the writers of the store,       *)
(* SpecOrder the order of migration and the work list over every source    *)
(* index, SpecShutdown the run with shutdown() called from outside,        *)
(* SpecLive the invocations nothing cuts short (under fairness),           *)
(* SpecFaults the run with the store failing inside a unit, SpecDup the    *)
(* units of a batch uploading through one client, SpecGate the client's    *)
(* concurrency gate (under fairness).                                      *)
(***************************************************************************)
EXTENDS Integers, Sequences, FiniteSets, TLC

(* ---------------------------- bounds ----------------------------------- *)
NumDocs == 2            \* entries of the source index
MaxArticles == 2        \* remote articles created from one document
MaxRuns == 2            \* new runs of one installation (SpecRuns)
NumHashes == 3          \* distinct attachment contents (SpecUpload)
MaxAtts == 3            \* attachments handled by one process (SpecUpload)
Rate == 2               \* RateLimiter(rate, per): requests per period
Per == 4                \* RateLimiter(rate, per): the period, in clock ticks
MaxTime == 6            \* clock ticks followed (SpecLimiter)
MaxCalls == 2           \* gateway calls followed (SpecGateway)
Threshold == 2          \* CircuitBreaker: failure_threshold
Window == 2             \* CircuitBreaker: recovery_timeout, in clock ticks
MaxEvents == 4          \* failures and successes recorded (SpecBreaker)
PageSize == 2           \* items per page of the remote listing (100 in the code)
MaxItems == 4           \* items of the remote listing (SpecListing)
NumNodes == 4           \* documents of the source index (SpecOrder)
RecursionLimit == 3     \* nested calls the interpreter allows (1000 by default)
MaxUnits == 3           \* document units of one batch that upload (SpecDup)

Locators == 1..NumDocs

\* SuperOpsConfig.rate_limit: Field(ge=1, le=800)
RateLimitMin == 1
RateLimitMax == 800
\* asyncio.Semaphore(config.rate_limit // 10)
GateDivisor == 10

\* the contents (by their sha256) the units of SpecDup upload
Contents == {1, 2}

(* ------------------------- source index -------------------------------- *)
\* metadata.related_documents: the name of D1 contains the name of D2, so D1
\* references D2; the others reference nothing
related == [d \in Locators |-> IF d = 1 THEN {2} \cap Locators ELSE {}]

\* Titles are sequences of tokens: "docid" a leading DOC-n-n pattern, "ext" a
\* file extension, "tmpl" the [TEMPLATE] marker, "sp" white space, anything
\* else a word.
RECURSIVE DropLeading(_, _), CollapseSpaces(_)
DropLeading(t, tok) ==
    IF t # <<>> /\ Head(t) = tok THEN DropLeading(Tail(t), tok) ELSE t

DropTrailing(t, tok) ==
    IF t # <<>> /\ t[Len(t)] = tok THEN SubSeq(t, 1, Len(t) - 1) ELSE t

CollapseSpaces(t) ==
    IF Len(t) < 2 THEN t
    ELSE IF t[1] = "sp" /\ t[2] = "sp" THEN CollapseSpaces(Tail(t))
    ELSE <<t[1]>> \o CollapseSpaces(Tail(t))

\* ContentTransformer._clean_title: the document-id prefix with the white
\* space after it, the file extension and the markers are removed, white
\* space is normalised.  The titles of the source index are between 3 and
\* 255 characters, so the length rules do not apply.
CleanTitle(t) ==
    LET noId  == IF t # <<>> /\ Head(t) = "docid"
                 THEN DropLeading(Tail(t), "sp") ELSE t
        noExt == DropTrailing(noId, "ext")
        noTag == SelectSeq(noExt, LAMBDA x : x # "tmpl")
        one   == CollapseSpaces(noTag)
    IN  DropTrailing(DropLeading(one, "sp"), "sp")

\* the CSV name of a document (metadata.name): D1 is "<name of D2> [TEMPLATE]",
\* D2 is "guide", any further document "notes"
CsvName(d) ==
    IF d = 1 THEN <<"guide", "sp", "tmpl">>
    ELSE IF d = 2 THEN <<"guide">>
    ELSE <<"notes">>

\* the title HtmlParser._extract_title finds in the document's HTML file
HtmlTitle(d) ==
    IF d = 1 THEN <<"guide", "sp", "tmpl">>
    ELSE IF d = 2 THEN <<"docid", "sp", "guide", "ext">>
    ELSE CsvName(d)

\* Document.title is the CSV name; the article is created under the cleaned
\* HTML title
Title(d) == CsvName(d)
TransformedTitle(d) == CleanTitle(HtmlTitle(d))

\* the itemId the remote service gives the k-th article created from
\* document d
ArticleId(d, k) == 10 * d + k

\* dry run: superops_id = f"dry-run-{document.id}"
DryRunId(d) == 0 - d

(* ------------------------- status enums -------------------------------- *)
PENDING == "pending"
IN_PROGRESS == "in_progress"
COMPLETED == "completed"
FAILED == "failed"
SKIPPED == "skipped"
UPLOADED == "uploaded"
DocumentStatus == {PENDING, IN_PROGRESS, COMPLETED, FAILED, SKIPPED}
AttachmentStatus == {PENDING, UPLOADED, FAILED, SKIPPED}
Terminal == {COMPLETED, FAILED, SKIPPED}

VARIABLES
    runs,        \* migration_runs table: sequence of rows, id = index
    docs,        \* documents table: locator -> row (run = 0: no row)
    atts,        \* attachments table: per run, the number of rows per status
    articles,    \* remote service: per document, the articles created from it
    cfg,         \* config.migration of the installation
    pc,          \* position of migrate()'s coordinating flow
    cur,         \* self.current_run (in-memory MigrationRun) or NoRun
    addIdx,      \* loop position of _create_migration_run
    work,        \* the work list (documents) of this invocation
    batchStart,  \* start_idx of the batch in flight
    task,        \* per document of the batch: the _process_document unit
    shutdown,    \* _shutdown_event
    outcome,     \* how the last invocation ended
    inv,         \* history of the invocation, for stating the properties
    cats,        \* the collection of the articles: remote service and caches
    up,          \* attachments: the upload client, the records, the loop
    rl,          \* the gateway's RateLimiter and the clock
    gw,          \* the gateway call (_execute) in flight and its attempts
    cb,          \* ErrorHandler: its circuit breakers and its clock
    tbl,         \* documents table as rows in insertion order (store calls)
    kb,          \* remote listing of knowledge-base items, in page order
    stat,        \* get_statistics in flight beside the writers of the store
    ord,         \* a source index's references and the order computed from it
    dup,         \* two units uploading the same bytes through one client
    gate         \* the upload client's concurrency gate and its uploads

vars == <<runs, docs, atts, articles, cfg, pc, cur, addIdx, work,
          batchStart, task, shutdown, outcome, inv, cats, up, rl, gw, cb, tbl, kb, stat, ord, dup, gate>>

storeVars == <<runs, docs, atts>>

NoRun == [id |-> 0]
NoDoc == [run |-> 0, status |-> PENDING, sid |-> 0, err |-> ""]
NoTask == [pc |-> "none", err |-> "", sid |-> 0]

Range(s) == {s[i] : i \in 1..Len(s)}
Min(a, b) == IF a < b THEN a ELSE b

(* --------------------------- state store ------------------------------- *)
\* Database.create_migration_run: the inserted row
NewRunRow(total) ==
    [completed |-> FALSE, total |-> total, successful |-> 0, failed |-> 0,
     skipped |-> 0, succAtt |-> 0, failAtt |-> 0]

\* Database.get_latest_migration_run
LatestRun ==
    IF Len(runs) = 0 THEN NoRun
    ELSE [id |-> Len(runs)] @@ runs[Len(runs)]

\* Database.update_migration_run: every column but total is overwritten
UpdateMigrationRun(rs, run) ==
    [rs EXCEPT ![run.id] =
        [completed |-> run.completed, total |-> @.total,
         successful |-> run.successful, failed |-> run.failed,
         skipped |-> run.skipped, succAtt |-> run.succAtt,
         failAtt |-> run.failAtt]]

\* Database.add_document: INSERT OR REPLACE keyed by the locator alone
AddDocument(ds, runId, d) ==
    [ds EXCEPT ![d] = [run |-> runId, status |-> PENDING, sid |-> 0, err |-> ""]]

\* Database.update_document_status: UPDATE ... WHERE id = ?
UpdateDocumentStatus(ds, d, status, sid, err) ==
    IF ds[d].run = 0 THEN ds
    ELSE [ds EXCEPT ![d] = [run |-> @.run, status |-> status,
                            sid |-> sid, err |-> err]]

\* Database.get_documents_by_status: ... WHERE run_id = ? AND status = ? ORDER BY id
GetDocumentsByStatus(runId, status) ==
    SelectSeq([i \in 1..NumDocs |-> i],
              LAMBDA d : docs[d].run = runId /\ docs[d].status = status)

\* Database.get_statistics, documents part
DocCount(runId, status) ==
    Cardinality({d \in Locators : docs[d].run = runId /\ docs[d].status = status})

\* Database.get_statistics, attachments part
AttCount(runId, status) == atts[runId][status]

\* the five counters of a MigrationRun
Counters(r) ==
    [successful |-> r.successful, failed |-> r.failed, skipped |-> r.skipped,
     succAtt |-> r.succAtt, failAtt |-> r.failAtt]

(* ------------------------- migration order ----------------------------- *)
\* CSVMetadataParser.get_migration_order: depth-first post-order over
\* related_documents; a node's references are taken in locator order.
RECURSIVE Visit(_, _), VisitDeps(_, _), VisitAll(_, _)
Visit(node, st) ==
    IF node \in st.visited THEN st
    ELSE LET s1 == [visited |-> st.visited \cup {node}, order |-> st.order]
             s2 == VisitDeps(related[node], s1)
         IN  [visited |-> s2.visited, order |-> Append(s2.order, node)]
VisitDeps(deps, st) ==
    IF deps = {} THEN st
    ELSE LET n == CHOOSE x \in deps : \A y \in deps : x <= y
         IN  VisitDeps(deps \ {n}, Visit(n, st))
VisitAll(i, st) ==
    IF i > NumDocs THEN st ELSE VisitAll(i + 1, Visit(i, st))

GetMigrationOrder == VisitAll(1, [visited |-> {}, order |-> <<>>]).order

(* ----------------------- work list and batches ------------------------- *)
Limits == {0, 1}        \* 0: no limit given (None; `if limit` is falsy for 0 too)
BatchSizes == {1, 2}    \* config.migration.batch_size

\* a work list that would also take the FAILED documents again
GetDocumentsToMigrateWithFailed(runId, limit) ==
    LET fetched == SelectSeq([i \in 1..NumDocs |-> i],
                             LAMBDA d : docs[d].run = runId
                                        /\ docs[d].status \in {PENDING, FAILED})
        limited == IF limit = 0 THEN fetched
                   ELSE SubSeq(fetched, 1, Min(limit, Len(fetched)))
    IN  SelectSeq(GetMigrationOrder, LAMBDA d : d \in Range(limited))

\* _get_documents_to_migrate without a filter: fetch the PENDING documents,
\* cap, then sort by position in the migration order.  The sort keys are
\* distinct, so the sorted list is the migration order restricted to the
\* selected documents.
GetDocumentsToMigrate(runId, limit) ==
    LET fetched == GetDocumentsByStatus(runId, PENDING)
        limited == IF limit = 0 THEN fetched
                   ELSE SubSeq(fetched, 1, Min(limit, Len(fetched)))
    IN  SelectSeq(GetMigrationOrder, LAMBDA d : d \in Range(limited))

\* _process_documents: documents[start_idx:end_idx]
Batch(w, start) == {w[i] : i \in start..Min(start + cfg.batch_size - 1, Len(w))}

\* tasks = [self._process_document(doc) for doc in batch]
StartBatch(w, start) ==
    [d \in Locators |-> IF d \in Batch(w, start)
                        THEN [NoTask EXCEPT !.pc = "markInProgress"]
                        ELSE NoTask]

\* a gather that would return without awaiting its units
NotAwaited == TRUE

\* asyncio.gather has every result
Finished == \A d \in Locators : task[d].pc \in {"none", "ok", "raised", "handled"}

(* --------------------------- collections ------------------------------- *)
\* ContentTransformer._determine_category never returns None; the documents
\* of the source index match no organisation, type or title rule and all go
\* to "General Documentation".  cats.remote counts the remote collections of
\* that name, cats.cache is MigrationOrchestrator.category_cache[name] and
\* cats.gw is SuperOpsGraphQLClient._categories_cache[name] (0: no entry),
\* cats.got the id each unit was given by a look-up, cats.calls the
\* createKbCollection calls of the process.
CollectionId(k) == 100 + k

NoCats ==
    [remote |-> 0, cache |-> 0, gw |-> 0, got |-> [d \in Locators |-> 0],
     calls |-> 0]

(* ------------------- attachments and rate limiter ---------------------- *)
Hashes == 1..NumHashes

\* AttachmentUploadResult.url when the response carries none (None)
NoUrl == 0

\* the i-th URL the service hands out
Url(i) == 200 + i

NoAtt == [hash |-> 0, kind |-> "none"]
NoResult == [success |-> FALSE, url |-> NoUrl, raised |-> FALSE]

\* SuperOpsAttachmentClient.__init__ (_file_cache empty) and a run with no
\* attachment record; hist lists, per content, the finished client calls
NoUp ==
    [pc |-> "idle", cache |-> [h \in Hashes |-> NoUrl], recs |-> <<>>,
     att |-> NoAtt, tries |-> 0, result |-> NoResult, served |-> 0,
     succ |-> 0, fail |-> 0, hist |-> [h \in Hashes |-> <<>>]]

\* RateLimiter.__init__ at clock 0: tokens = rate (held in units of 1/Per
\* token), updated_at = now
NoRl ==
    [tokens |-> Rate * Per, updated_at |-> 0, now |-> 0, pc |-> "ready",
     wake |-> 0, granted |-> 0, total |-> 0]

\* no _execute call in flight; the build's tenacity computes the exponential
\* wait from attempt_number - offset
NoGw ==
    [pc |-> "idle", doc |-> 0, attempt |-> 0, sent |-> 0, acquired |-> 0,
     waits |-> <<>>, answers |-> <<>>, result |-> "none", calls |-> 0,
     offset |-> 0]

\* CircuitBreaker.__init__ and the clock; events lists what was recorded
\* and when, open and at hold the last answer of is_open() and its time
NoCb ==
    [now |-> 0, count |-> 0, last |-> 0, state |-> "closed",
     events |-> <<>>, open |-> FALSE, at |-> 0]

\* the documents table after _create_schema, and no call made yet: rows in
\* insertion (rowid) order, before the rows as they were before the last
\* call, last the last call with what it gave back
NoCall ==
    [op |-> "none", id |-> 0, run |-> 0, status |-> PENDING, repeat |-> FALSE,
     found |-> FALSE, raised |-> FALSE, result |-> <<>>]
NoTbl == [rows |-> <<>>, before |-> <<>>, last |-> NoCall]

\* no remote listing followed and no check_article_exists in flight
NoKb ==
    [items |-> <<>>, title |-> "", pc |-> "idle", page |-> 0, result |-> 0]

\* no get_statistics followed: the run's documents all pending, no attachment
\* rows ("none"), no result, no state of the store seen
NoStat ==
    [pc |-> "idle", documents |-> [d \in Locators |-> PENDING],
     attachments |-> [d \in Locators |-> "none"],
     doc_stats |-> <<>>, att_stats |-> <<>>, seen |-> {}]

\* no source index of its own followed: no references, no order computed,
\* no work list built
NoOrd ==
    [pc |-> "idle", refs |-> <<>>, order |-> <<>>, raised |-> FALSE,
     work |-> <<>>]

\* no upload_bytes call made yet: the units of the batch idle, _file_cache
\* empty (0: no entry), no network upload call made for any content
NoDup ==
    [unit |-> [u \in 1..MaxUnits |->
                  [pc |-> "idle", hash |-> 0, url |-> 0, beside |-> {}]],
     cache |-> [h \in Contents |-> 0],
     calls |-> [h \in Contents |-> 0]]

\* no attachment client followed: a gate of no permit, no upload asked for
NoGate ==
    [rate_limit |-> 0, value |-> 0,
     unit |-> [u \in 1..MaxUnits |-> "idle"]]

(* ------------------------------ Init ----------------------------------- *)
NoInv ==
    [resume |-> FALSE, nothing |-> FALSE, zeroStreak |-> 0,
     startRuns |-> <<>>, startDocs |-> [d \in Locators |-> NoDoc],
     startCounters |-> Counters(NewRunRow(0)),
     creates |-> FALSE, raised |-> {}, missing |-> {}, gateway |-> {},
     prevEarly |-> FALSE, early |-> FALSE, reverted |-> {}, matched |-> {}]

Init ==
    /\ runs = <<>>
    /\ docs = [d \in Locators |-> NoDoc]
    /\ atts = <<>>
    /\ articles = [d \in Locators |-> 0]
    /\ cfg \in [dry_run : BOOLEAN, continue_on_error : BOOLEAN,
                skip_existing : BOOLEAN, batch_size : BatchSizes]
    /\ pc = "idle"
    /\ cur = NoRun
    /\ addIdx = 0
    /\ work = <<>>
    /\ batchStart = 0
    /\ task = [d \in Locators |-> NoTask]
    /\ shutdown = FALSE
    /\ outcome = "none"
    /\ inv = NoInv
    /\ cats = [NoCats EXCEPT !.remote = 1]
    /\ up = NoUp
    /\ rl = NoRl
    /\ gw = NoGw
    /\ cb = NoCb
    /\ tbl = NoTbl
    /\ kb = NoKb
    /\ stat = NoStat
    /\ ord = NoOrd
    /\ dup = NoDup
    /\ gate = NoGate

(* ----------------------- migrate(): start-up --------------------------- *)
\* the invocation ends and the process with it: of its memory only the run
\* it worked on (cur) is kept, for stating what it left in the store
EndInvocation(how, early, reverted) ==
    /\ pc' = "idle"
    /\ outcome' = how
    /\ inv' = [NoInv EXCEPT !.early = early, !.reverted = reverted,
                            !.zeroStreak = inv.zeroStreak,
                            !.nothing = inv.nothing,
                            !.startRuns = inv.startRuns,
                            !.startDocs = inv.startDocs]
    /\ task' = [d \in Locators |-> NoTask]
    /\ work' = <<>>
    /\ batchStart' = 0
    /\ addIdx' = 0
    /\ shutdown' = FALSE

PendingOfLatest == Len(GetDocumentsByStatus(Len(runs), PENDING))

\* cli._run_migration: a new process, a new MigrationOrchestrator,
\* migrate(resume, limit).  Under Spec the collection exists remotely and its
\* look-up is not followed: the process starts with it in its caches
\* (SpecFirst follows the look-up from empty caches).
Invoke(resume) ==
    /\ pc = "idle"
    /\ resume \/ Len(runs) = 0
    /\ pc' = "connect"
    /\ cur' = NoRun
    /\ shutdown' = FALSE
    /\ outcome' = "none"
    /\ task' = [d \in Locators |-> NoTask]
    /\ work' = <<>>
    /\ batchStart' = 0
    /\ addIdx' = 0
    /\ LET zero    == resume /\ Len(runs) > 0 /\ PendingOfLatest = 0
           nothing == resume /\ (Len(runs) = 0 \/ runs[Len(runs)].completed
                                 \/ PendingOfLatest = 0)
       IN  inv' = [NoInv EXCEPT
                 !.resume = resume,
                 !.nothing = nothing,
                 !.zeroStreak = IF ~zero THEN 0
                                ELSE IF inv.zeroStreak >= 1
                                        /\ outcome \in {"returned", "rejected"}
                                     THEN 2 ELSE 1,
                 !.startRuns = IF nothing THEN runs ELSE <<>>,
                 !.startDocs = IF nothing THEN docs ELSE [d \in Locators |-> NoDoc],
                 !.startCounters = IF resume /\ Len(runs) > 0
                                   THEN Counters(runs[Len(runs)])
                                   ELSE Counters(NewRunRow(0)),
                 !.prevEarly = resume /\ inv.early]
    /\ cats' = [cats EXCEPT !.cache = CollectionId(1), !.gw = CollectionId(1)]
    /\ UNCHANGED <<storeVars, articles, cfg, up, rl, gw, cb, tbl, kb, stat, ord, dup, gate>>

\* a start-up that would create the run row before it tests the connection
ConnectAfterCreate ==
    /\ pc = "connect"
    /\ \E reachable \in BOOLEAN :
         IF reachable
         THEN /\ pc' = "startRun"
              /\ UNCHANGED <<outcome, task, work, batchStart, addIdx, inv,
                             shutdown, runs, atts>>
         ELSE /\ EndInvocation("unreachable", FALSE, {})
              /\ runs' = Append(runs, NewRunRow(NumDocs))
              /\ atts' = Append(atts, [s \in AttachmentStatus |-> 0])
    /\ UNCHANGED <<docs, articles, cfg, cur, cats, up, rl, gw, cb, tbl, kb, stat, ord, dup, gate>>

\* initialize() and graphql_client.test_connection(): get_kb_categories
\* answers (and caches the collection it lists) or fails; an unreachable
\* service raises MigrationError, which migrate() re-raises with no current
\* run
Connect ==
    /\ pc = "connect"
    /\ \E reachable \in BOOLEAN :
         IF reachable
         THEN /\ pc' = "startRun"
              /\ cats' = [cats EXCEPT !.gw = IF cats.remote > 0
                                             THEN CollectionId(1) ELSE @]
              /\ UNCHANGED <<outcome, task, work, batchStart, addIdx, inv, shutdown>>
         ELSE /\ EndInvocation("unreachable", FALSE, {})
              /\ UNCHANGED cats
    /\ UNCHANGED <<storeVars, articles, cfg, cur, up, rl, gw, cb, tbl, kb, stat, ord, dup, gate>>

\* _create_migration_run: database.create_migration_run
CreateRun ==
    /\ pc = "startRun"
    /\ ~inv.resume
    /\ runs' = Append(runs, NewRunRow(NumDocs))
    /\ atts' = Append(atts, [s \in AttachmentStatus |-> 0])
    /\ pc' = "addDocs"
    /\ addIdx' = 1
    /\ UNCHANGED <<docs, articles, cfg, cur, work, batchStart, task,
                   shutdown, outcome, inv>>
    /\ UNCHANGED <<cats, up, rl, gw, cb, tbl, kb, stat, ord, dup, gate>>

\* _create_migration_run: one add_document of the loop; the run becomes
\* self.current_run only when the loop is over
AddDocumentStep ==
    /\ pc = "addDocs"
    /\ docs' = AddDocument(docs, Len(runs), addIdx)
    /\ IF addIdx = NumDocs
       THEN /\ cur' = [id |-> Len(runs)] @@ NewRunRow(NumDocs)
            /\ pc' = "getDocs"
            /\ addIdx' = 0
       ELSE /\ addIdx' = addIdx + 1
            /\ UNCHANGED <<cur, pc>>
    /\ UNCHANGED <<runs, atts, articles, cfg, work, batchStart, task,
                   shutdown, outcome, inv>>
    /\ UNCHANGED <<cats, up, rl, gw, cb, tbl, kb, stat, ord, dup, gate>>

\* _resume_migration: the run it returns, NoRun when it raises MigrationError
ResumeMigration ==
    IF LatestRun = NoRun THEN NoRun
    ELSE IF LatestRun.completed THEN NoRun
    ELSE LatestRun

\* migrate(resume=True): _resume_migration
ResumeRun ==
    /\ pc = "startRun"
    /\ inv.resume
    /\ IF ResumeMigration = NoRun
       THEN /\ EndInvocation("rejected", FALSE, {})
            /\ UNCHANGED cur
       ELSE /\ cur' = ResumeMigration
            /\ pc' = "getDocs"
            /\ UNCHANGED <<outcome, task, work, batchStart, addIdx, inv, shutdown>>
    /\ UNCHANGED <<storeVars, articles, cfg>>
    /\ UNCHANGED <<cats, up, rl, gw, cb, tbl, kb, stat, ord, dup, gate>>

\* migrate(): _get_documents_to_migrate, then either the empty-list return or
\* _process_documents up to the first gather
GetDocuments ==
    /\ pc = "getDocs"
    /\ \E limit \in Limits :
         LET w == GetDocumentsToMigrate(cur.id, limit)
         IN  IF w = <<>>
             THEN /\ EndInvocation("returned", FALSE, {})
             ELSE /\ work' = w
                  /\ batchStart' = 1
                  /\ task' = StartBatch(w, 1)
                  /\ pc' = "gather"
                  /\ UNCHANGED <<outcome, addIdx, inv, shutdown>>
    /\ UNCHANGED <<storeVars, articles, cfg, cur>>
    /\ UNCHANGED <<cats, up, rl, gw, cb, tbl, kb, stat, ord, dup, gate>>

(* ------------------- _process_document: one unit ----------------------- *)
\* with the collection id at hand: the create call, or the dry-run id
AfterCategory(d) ==
    IF cfg.dry_run THEN [pc |-> "markCompleted", err |-> "", sid |-> DryRunId(d)]
    ELSE [pc |-> "createArticle", err |-> "", sid |-> 0]

\* after the transformation: _get_or_create_category returns at once when
\* category_cache has the name, else it goes to the gateway
AfterTransform(d) ==
    IF cats.cache # 0 THEN AfterCategory(d)
    ELSE [pc |-> "resolveCategory", err |-> "", sid |-> 0]

\* parse_document / validate_document / transform_document run synchronously;
\* parseOk: none of them raises
AfterParse(d, parseOk) ==
    IF ~parseOk THEN [pc |-> "markFailed", err |-> "parse error", sid |-> 0]
    ELSE AfterTransform(d)

Go(d, nxt) == task' = [task EXCEPT ![d] = nxt]

\* update_document_status(IN_PROGRESS), then the metadata and file checks
MarkInProgress(d) ==
    /\ pc = "gather"
    /\ task[d].pc = "markInProgress"
    /\ docs' = UpdateDocumentStatus(docs, d, IN_PROGRESS, 0, "")
    /\ \E missing \in BOOLEAN, parseOk \in BOOLEAN :
         /\ (missing \/ cfg.skip_existing) => parseOk
         /\ Go(d, IF missing THEN [pc |-> "markSkippedMissing", err |-> "", sid |-> 0]
                  ELSE IF cfg.skip_existing
                       THEN [pc |-> "checkExists", err |-> "", sid |-> 0]
                       ELSE AfterParse(d, parseOk))
         /\ inv' = [inv EXCEPT !.missing = IF missing THEN @ \cup {d} ELSE @,
                               !.raised = IF ~parseOk THEN @ \cup {d} ELSE @]
    /\ UNCHANGED <<runs, atts, articles, cfg, pc, cur, addIdx, work, batchStart,
                   shutdown, outcome>>
    /\ UNCHANGED <<cats, up, rl, gw, cb, tbl, kb, stat, ord, dup, gate>>

\* file missing: update_document_status(SKIPPED, "File not found"); return
MarkSkippedMissing(d) ==
    /\ pc = "gather"
    /\ task[d].pc = "markSkippedMissing"
    /\ docs' = UpdateDocumentStatus(docs, d, SKIPPED, 0, "File not found")
    /\ Go(d, [pc |-> "ok", err |-> "", sid |-> 0])
    /\ UNCHANGED <<runs, atts, articles, cfg, pc, cur, addIdx, work, batchStart,
                   shutdown, outcome, inv>>
    /\ UNCHANGED <<cats, up, rl, gw, cb, tbl, kb, stat, ord, dup, gate>>

\* SuperOpsGraphQLClient.check_article_exists: id of the first article whose
\* name is the title, 0 when there is none
CheckArticleExists(title) ==
    LET hits == {d \in Locators : TransformedTitle(d) = title /\ articles[d] > 0}
    IN  IF hits = {} THEN 0
        ELSE ArticleId(CHOOSE d \in hits : \A e \in hits : d <= e, 1)

\* skip_existing: graphql_client.check_article_exists(document.title)
CheckExists(d) ==
    /\ pc = "gather"
    /\ task[d].pc = "checkExists"
    /\ \E parseOk \in BOOLEAN :
         /\ CheckArticleExists(Title(d)) # 0 => parseOk
         /\ Go(d, IF CheckArticleExists(Title(d)) # 0
                  THEN [pc |-> "markSkippedExists", err |-> "",
                        sid |-> CheckArticleExists(Title(d))]
                  ELSE AfterParse(d, parseOk))
         /\ inv' = [inv EXCEPT !.gateway = @ \cup {d},
                               !.raised = IF ~parseOk THEN @ \cup {d} ELSE @,
                               !.matched =
                                   IF CheckArticleExists(TransformedTitle(d)) # 0
                                   THEN @ \cup {d} ELSE @]
    /\ UNCHANGED <<storeVars, articles, cfg, pc, cur, addIdx, work, batchStart,
                   shutdown, outcome>>
    /\ UNCHANGED <<cats, up, rl, gw, cb, tbl, kb, stat, ord, dup, gate>>

\* update_document_status(SKIPPED, existing_id, "Already exists"); return
MarkSkippedExists(d) ==
    /\ pc = "gather"
    /\ task[d].pc = "markSkippedExists"
    /\ docs' = UpdateDocumentStatus(docs, d, SKIPPED, task[d].sid, "Already exists")
    /\ Go(d, [pc |-> "ok", err |-> "", sid |-> 0])
    /\ UNCHANGED <<runs, atts, articles, cfg, pc, cur, addIdx, work, batchStart,
                   shutdown, outcome, inv>>
    /\ UNCHANGED <<cats, up, rl, gw, cb, tbl, kb, stat, ord, dup, gate>>

\* SuperOpsGraphQLClient._execute: what a refused call raises, by its message:
\* a GraphQLError of the operation, or the HTTP 401 of a rejected token
\* (httpx.HTTPStatusError, re-raised)
AuthenticationFailed == "authentication failed"
GatewayErrors == {"create failed", AuthenticationFailed}

\* graphql_client.create_kb_article: the article exists remotely once the
\* call succeeds; an error goes to the unit's except clause
CreateArticle(d) ==
    /\ pc = "gather"
    /\ task[d].pc = "createArticle"
    /\ articles[d] < MaxArticles
    /\ \E ok \in BOOLEAN, e \in GatewayErrors :
         /\ IF ok
            THEN /\ e = "create failed"
                 /\ articles' = [articles EXCEPT ![d] = @ + 1]
                 /\ Go(d, [pc |-> "markCompleted", err |-> "",
                           sid |-> ArticleId(d, articles[d] + 1)])
            ELSE /\ Go(d, [pc |-> "markFailed", err |-> e, sid |-> 0])
                 /\ UNCHANGED articles
         /\ inv' = [inv EXCEPT !.creates = TRUE, !.gateway = @ \cup {d},
                               !.raised = IF ~ok THEN @ \cup {d} ELSE @]
    /\ UNCHANGED <<storeVars, cfg, pc, cur, addIdx, work, batchStart,
                   shutdown, outcome>>
    /\ UNCHANGED <<cats, up, rl, gw, cb, tbl, kb, stat, ord, dup, gate>>

\* update_document_status(COMPLETED, superops_id)
MarkCompleted(d) ==
    /\ pc = "gather"
    /\ task[d].pc = "markCompleted"
    /\ docs' = UpdateDocumentStatus(docs, d, COMPLETED, task[d].sid, "")
    /\ Go(d, [pc |-> "persistSuccess", err |-> "", sid |-> task[d].sid])
    /\ UNCHANGED <<runs, atts, articles, cfg, pc, cur, addIdx, work, batchStart,
                   shutdown, outcome, inv>>
    /\ UNCHANGED <<cats, up, rl, gw, cb, tbl, kb, stat, ord, dup, gate>>

\* successful_documents += 1; update_migration_run
PersistSuccess(d) ==
    /\ pc = "gather"
    /\ task[d].pc = "persistSuccess"
    /\ cur' = [cur EXCEPT !.successful = @ + 1]
    /\ runs' = UpdateMigrationRun(runs, cur')
    /\ Go(d, [pc |-> "ok", err |-> "", sid |-> task[d].sid])
    /\ UNCHANGED <<docs, atts, articles, cfg, pc, addIdx, work, batchStart,
                   shutdown, outcome, inv>>
    /\ UNCHANGED <<cats, up, rl, gw, cb, tbl, kb, stat, ord, dup, gate>>

(* ------------------- collection of the article ------------------------- *)
\* _get_or_create_category -> graphql_client.get_or_create_category: the
\* cache look-ups and get_kb_categories; a collection of the name found
\* remotely is returned (get_kb_categories caches it), else the create call
\* is next
ResolveCategory(d) ==
    /\ pc = "gather"
    /\ task[d].pc = "resolveCategory"
    /\ LET known == IF cats.cache # 0 THEN cats.cache
                    ELSE IF cats.gw # 0 THEN cats.gw
                    ELSE IF cats.remote > 0 THEN CollectionId(1)
                    ELSE 0
       IN  IF known # 0
           THEN /\ cats' = [cats EXCEPT !.cache = known, !.gw = known,
                                        !.got[d] = known]
                /\ Go(d, AfterCategory(d))
           ELSE /\ Go(d, [pc |-> "createCategory", err |-> "", sid |-> 0])
                /\ UNCHANGED cats
    /\ UNCHANGED <<storeVars, articles, cfg, pc, cur, addIdx, work, batchStart,
                   shutdown, outcome, inv, up, rl, gw, cb, tbl, kb, stat, ord, dup, gate>>

\* graphql_client.create_kb_category: a new remote collection, cached by the
\* gateway and then by the orchestrator; a GraphQLError goes to the unit's
\* except clause
CreateCategory(d) ==
    /\ pc = "gather"
    /\ task[d].pc = "createCategory"
    /\ \E ok \in BOOLEAN :
         /\ IF ok
            THEN /\ cats' = [cats EXCEPT !.remote = @ + 1,
                                         !.gw = CollectionId(cats.remote + 1),
                                         !.cache = CollectionId(cats.remote + 1),
                                         !.got[d] = CollectionId(cats.remote + 1),
                                         !.calls = @ + 1]
                 /\ Go(d, AfterCategory(d))
            ELSE /\ cats' = [cats EXCEPT !.calls = @ + 1]
                 /\ Go(d, [pc |-> "markFailed", err |-> "create failed", sid |-> 0])
         /\ inv' = [inv EXCEPT !.gateway = @ \cup {d},
                               !.raised = IF ~ok THEN @ \cup {d} ELSE @]
    /\ UNCHANGED <<storeVars, articles, cfg, pc, cur, addIdx, work, batchStart,
                   shutdown, outcome, up, rl, gw, cb, tbl, kb, stat, ord, dup, gate>>

(* ----------------------- _handle_document_error ------------------------ *)
\* an error handling that would stop the run at every document error
StopAlways == TRUE

\* if not self.config.migration.continue_on_error: _shutdown_event.set()
StopOnError == ~cfg.continue_on_error

\* the run statistics after one call: failed_documents += 1
CountDocumentError(run) == [run EXCEPT !.failed = @ + 1]

\* except Exception in _process_document: _handle_document_error, first
\* await: update_document_status(FAILED, error_message)
MarkFailed(d) ==
    /\ pc = "gather"
    /\ task[d].pc = "markFailed"
    /\ docs' = UpdateDocumentStatus(docs, d, FAILED, 0, task[d].err)
    /\ Go(d, [pc |-> "persistFailure", err |-> task[d].err, sid |-> 0])
    /\ UNCHANGED <<runs, atts, articles, cfg, pc, cur, addIdx, work, batchStart,
                   shutdown, outcome, inv>>
    /\ UNCHANGED <<cats, up, rl, gw, cb, tbl, kb, stat, ord, dup, gate>>

\* _handle_document_error, second await: the counter and update_migration_run,
\* then the shutdown decision; the unit re-raises
PersistFailure(d) ==
    /\ pc = "gather"
    /\ task[d].pc = "persistFailure"
    /\ cur' = CountDocumentError(cur)
    /\ runs' = UpdateMigrationRun(runs, cur')
    /\ shutdown' = (shutdown \/ StopOnError)
    /\ Go(d, [pc |-> "raised", err |-> task[d].err, sid |-> 0])
    /\ UNCHANGED <<docs, atts, articles, cfg, pc, addIdx, work, batchStart,
                   outcome, inv>>
    /\ UNCHANGED <<cats, up, rl, gw, cb, tbl, kb, stat, ord, dup, gate>>

(* ------------------ _process_documents: after gather ------------------- *)
\* the documents of the batch in flight whose unit raised, in batch order
RaisedInBatch == SelectSeq(work, LAMBDA d : task[d].pc = "raised")

\* for doc, result in zip(batch, results): isinstance(result, Exception) ->
\* _handle_document_error(doc, result), a second time for this document
HandleResult ==
    /\ pc = "gather"
    /\ Finished
    /\ RaisedInBatch # <<>>
    /\ LET d == Head(RaisedInBatch)
       IN  /\ docs' = UpdateDocumentStatus(docs, d, FAILED, 0, task[d].err)
           /\ cur' = CountDocumentError(cur)
           /\ runs' = UpdateMigrationRun(runs, cur')
           /\ shutdown' = (shutdown \/ StopOnError)
           /\ Go(d, [pc |-> "handled", err |-> task[d].err, sid |-> 0])
    /\ UNCHANGED <<atts, articles, cfg, pc, addIdx, work, batchStart,
                   outcome, inv>>
    /\ UNCHANGED <<cats, up, rl, gw, cb, tbl, kb, stat, ord, dup, gate>>

\* the shutdown check, then the pause before the next batch, or the end of
\* the loop and _finalize_migration up to its write: completed_at is set in
\* memory
EndBatch ==
    /\ pc = "gather"
    /\ Finished
    /\ RaisedInBatch = <<>>
    /\ IF ~shutdown /\ batchStart + cfg.batch_size <= Len(work)
       THEN /\ pc' = "sleep"
            /\ UNCHANGED cur
       ELSE /\ pc' = "finalize"
            /\ cur' = [cur EXCEPT !.completed = TRUE]
    /\ UNCHANGED <<storeVars, articles, cfg, addIdx, work, batchStart,
                   task, shutdown, outcome, inv>>
    /\ UNCHANGED <<cats, up, rl, gw, cb, tbl, kb, stat, ord, dup, gate>>

\* asyncio.sleep(1), then the next batch up to its gather
Sleep ==
    /\ pc = "sleep"
    /\ batchStart' = batchStart + cfg.batch_size
    /\ task' = StartBatch(work, batchStart')
    /\ pc' = "gather"
    /\ UNCHANGED <<storeVars, articles, cfg, cur, addIdx, work,
                   shutdown, outcome, inv>>
    /\ UNCHANGED <<cats, up, rl, gw, cb, tbl, kb, stat, ord, dup, gate>>

\* _finalize_migration: the run is written with its completion stamp, and
\* migrate() returns its statistics
Finalize ==
    /\ pc = "finalize"
    /\ runs' = UpdateMigrationRun(runs, cur)
    /\ EndInvocation("returned",
                     shutdown /\ \E d \in Locators : /\ docs[d].run = cur.id
                                                     /\ docs[d].status \notin Terminal,
                     {})
    /\ UNCHANGED <<docs, atts, articles, cfg, cur>>
    /\ UNCHANGED <<cats, up, rl, gw, cb, tbl, kb, stat, ord, dup, gate>>

(* --------------------- ways an invocation is cut short ----------------- *)
\* a cancellation handler that would leave the documents as they are
KeepInProgress(ds, runId) == ds

\* _handle_cancellation, documents part: IN_PROGRESS documents of the run go
\* back to PENDING (superops_id and error_message are overwritten with NULL)
RevertInProgress(ds, runId) ==
    [d \in Locators |-> IF ds[d].run = runId /\ ds[d].status = IN_PROGRESS
                        THEN [ds[d] EXCEPT !.status = PENDING, !.sid = 0, !.err = ""]
                        ELSE ds[d]]

\* except asyncio.CancelledError: the units of the batch are cancelled with
\* the coordinating flow, _handle_cancellation runs, the cancellation is
\* re-raised
Cancel ==
    /\ pc \notin {"idle"}
    /\ IF cur # NoRun
       THEN /\ docs' = RevertInProgress(docs, cur.id)
            /\ runs' = UpdateMigrationRun(runs, cur)
            /\ EndInvocation("cancelled", FALSE,
                             Range(GetDocumentsByStatus(cur.id, IN_PROGRESS)))
       ELSE /\ UNCHANGED <<docs, runs>>
            /\ EndInvocation("cancelled", FALSE, {})
    /\ UNCHANGED <<atts, articles, cfg, cur>>
    /\ UNCHANGED <<cats, up, rl, gw, cb, tbl, kb, stat, ord, dup, gate>>

\* except Exception: an error outside the units (the store failing under
\* _get_documents_to_migrate or under the second _handle_document_error);
\* the run is written back and MigrationError raised
RunLevelFailure ==
    /\ \/ pc = "getDocs"
       \/ pc = "gather" /\ Finished /\ RaisedInBatch # <<>>
    /\ runs' = UpdateMigrationRun(runs, cur)
    /\ EndInvocation("error", TRUE, {})
    /\ UNCHANGED <<docs, atts, articles, cfg, cur>>
    /\ UNCHANGED <<cats, up, rl, gw, cb, tbl, kb, stat, ord, dup, gate>>

\* the process is killed while units are in flight: no handler runs
Kill ==
    /\ pc = "gather"
    /\ ~Finished
    /\ EndInvocation("killed", FALSE, {})
    /\ UNCHANGED <<storeVars, articles, cfg, cur>>
    /\ UNCHANGED <<cats, up, rl, gw, cb, tbl, kb, stat, ord, dup, gate>>

(* ------------------------------ Next ----------------------------------- *)
Unit(d) ==
    \/ MarkInProgress(d)
    \/ MarkSkippedMissing(d)
    \/ CheckExists(d)
    \/ MarkSkippedExists(d)
    \/ CreateArticle(d)
    \/ MarkCompleted(d)
    \/ PersistSuccess(d)
    \/ MarkFailed(d)
    \/ PersistFailure(d)

Next ==
    \/ \E resume \in BOOLEAN : Invoke(resume)
    \/ Connect
    \/ CreateRun
    \/ AddDocumentStep
    \/ ResumeRun
    \/ GetDocuments
    \/ \E d \in Locators : Unit(d)
    \/ HandleResult
    \/ EndBatch
    \/ Sleep
    \/ Finalize
    \/ Cancel
    \/ RunLevelFailure
    \/ Kill

Spec == Init /\ [][Next]_vars

(* ------------------------ shutdown requests ---------------------------- *)
\* MigrationOrchestrator.shutdown(): the flag is set from outside the
\* coordinating flow, at any of its awaits once batches are under way
RequestShutdown ==
    /\ pc \in {"gather", "sleep"}
    /\ ~shutdown
    /\ shutdown' = TRUE
    /\ UNCHANGED <<storeVars, articles, cfg, pc, cur, addIdx, work, batchStart,
                   task, outcome, inv>>
    /\ UNCHANGED <<cats, up, rl, gw, cb, tbl, kb, stat, ord, dup, gate>>

NextShutdown ==
    \/ Next
    \/ RequestShutdown

\* SpecShutdown follows the life of one run as Spec does, with shutdown()
\* called at any moment of the batches.
SpecShutdown == Init /\ [][NextShutdown]_vars

(* --------------------- an undisturbed invocation ----------------------- *)
\* SpecLive follows the invocations of one run that nothing cuts short: no
\* cancellation, no kill, no failure of the store outside the units.  The
\* event loop runs every coroutine that is ready, so a step that stays
\* possible is taken.
NextLive ==
    \/ \E resume \in BOOLEAN : Invoke(resume)
    \/ Connect
    \/ CreateRun
    \/ AddDocumentStep
    \/ ResumeRun
    \/ GetDocuments
    \/ \E d \in Locators : Unit(d)
    \/ HandleResult
    \/ EndBatch
    \/ Sleep
    \/ Finalize

SpecLive == Init /\ [][NextLive]_vars /\ WF_vars(NextLive)

(* ----------------------- the store failing ----------------------------- *)
\* _process_document after update_document_status(COMPLETED): the counter is
\* incremented in memory, update_migration_run raises (the store is locked
\* or unreachable) inside the unit's try block, and the unit's except clause
\* takes over
PersistSuccessFails(d) ==
    /\ pc = "gather"
    /\ task[d].pc = "persistSuccess"
    /\ cur' = [cur EXCEPT !.successful = @ + 1]
    /\ Go(d, [pc |-> "markFailed", err |-> "store failed", sid |-> 0])
    /\ inv' = [inv EXCEPT !.raised = @ \cup {d}]
    /\ UNCHANGED <<storeVars, articles, cfg, pc, addIdx, work, batchStart,
                   shutdown, outcome>>
    /\ UNCHANGED <<cats, up, rl, gw, cb, tbl, kb, stat, ord, dup, gate>>

NextFaults ==
    \/ Next
    \/ \E d \in Locators : PersistSuccessFails(d)

\* SpecFaults follows the life of one run as Spec does, with the store free
\* to fail under the unit's update_migration_run.
SpecFaults == Init /\ [][NextFaults]_vars

(* ------------------------- first invocation ---------------------------- *)
\* SpecFirst follows the first invocation of an installation from its start
\* to its end, with the look-up of the collection followed step by step:
\* a new process (empty caches) has been started without resume; the remote
\* service may already hold a collection of the name and articles with the
\* documents' titles.
InitFirst ==
    /\ runs = <<>>
    /\ docs = [d \in Locators |-> NoDoc]
    /\ atts = <<>>
    /\ articles \in [Locators -> {0, 1}]
    /\ cfg \in [dry_run : BOOLEAN, continue_on_error : BOOLEAN,
                skip_existing : BOOLEAN, batch_size : BatchSizes]
    /\ pc = "connect"
    /\ cur = NoRun
    /\ addIdx = 0
    /\ work = <<>>
    /\ batchStart = 0
    /\ task = [d \in Locators |-> NoTask]
    /\ shutdown = FALSE
    /\ outcome = "none"
    /\ inv = NoInv
    /\ cats \in {[NoCats EXCEPT !.remote = n] : n \in {0, 1}}
    /\ up = NoUp
    /\ rl = NoRl
    /\ gw = NoGw
    /\ cb = NoCb
    /\ tbl = NoTbl
    /\ kb = NoKb
    /\ stat = NoStat
    /\ ord = NoOrd
    /\ dup = NoDup
    /\ gate = NoGate

NextFirst ==
    \/ Connect
    \/ CreateRun
    \/ AddDocumentStep
    \/ GetDocuments
    \/ \E d \in Locators : Unit(d)
    \/ \E d \in Locators : ResolveCategory(d)
    \/ \E d \in Locators : CreateCategory(d)
    \/ HandleResult
    \/ EndBatch
    \/ Sleep
    \/ Finalize

SpecFirst == InitFirst /\ [][NextFirst]_vars

(* --------------------------- several runs ------------------------------ *)
\* SpecRuns follows an installation over several new runs: every invocation
\* is `migrate` without --resume, so each one creates a run and registers the
\* documents of the export again.  As under Spec the collection exists
\* remotely and its look-up is not followed.
InvokeNew ==
    /\ pc = "idle"
    /\ Len(runs) < MaxRuns
    /\ pc' = "connect"
    /\ cur' = NoRun
    /\ shutdown' = FALSE
    /\ outcome' = "none"
    /\ task' = [d \in Locators |-> NoTask]
    /\ work' = <<>>
    /\ batchStart' = 0
    /\ addIdx' = 0
    /\ inv' = NoInv
    /\ cats' = [cats EXCEPT !.cache = CollectionId(1), !.gw = CollectionId(1)]
    /\ UNCHANGED <<storeVars, articles, cfg, up, rl, gw, cb, tbl, kb, stat, ord, dup, gate>>

NextRuns ==
    \/ InvokeNew
    \/ Connect
    \/ CreateRun
    \/ AddDocumentStep
    \/ GetDocuments
    \/ \E d \in Locators : Unit(d)
    \/ HandleResult
    \/ EndBatch
    \/ Sleep
    \/ Finalize
    \/ Cancel

SpecRuns == Init /\ [][NextRuns]_vars

(* -------------------------- attachments -------------------------------- *)
\* SpecUpload follows one process (not a dry run) through the attachments it
\* handles, one after the other: _upload_attachments of the orchestrator and
\* the upload client with its cache.  An attachment is its content (hash)
\* and how it comes: embedded base64 data, a file, or a file that is missing.
\* The orchestrator's other state stays as constructed.
orchVars == <<runs, docs, atts, articles, cfg, pc, cur, addIdx, work,
              batchStart, task, shutdown, outcome, inv, cats>>

AttKinds == {"embedded", "file", "missing"}

\* stop_after_attempt(3) of _upload_simple's retry
Attempts == 3

\* file_size > self.max_file_size: a property of the content
TooLarge(h) == h = NumHashes

\* what one POST /upload can answer: a file entry with or without "url", no
\* file entry, an HTTP error status, or no answer (transport error)
Responses == {"url", "nourl", "nodata", "status", "transport"}

\* a client that would never remember an upload
CacheNothing(cache, h, result) == cache

\* upload_file / upload_bytes: if result.success and result.url:
\* self._file_cache[hash] = result.url
CacheResult(cache, h, result) ==
    IF result.success /\ result.url # NoUrl
    THEN [cache EXCEPT ![h] = result.url]
    ELSE cache

\* the client call is over: its result goes back to _upload_attachments
Returned(u, result) ==
    [u EXCEPT !.pc = "write",
              !.result = result,
              !.cache = CacheResult(u.cache, u.att.hash, result),
              !.hist[u.att.hash] =
                  Append(@, [success |-> result.success, url |-> result.url,
                             net |-> u.tries])]

\* _upload_attachments, one attachment: database.add_attachment (PENDING),
\* then the upload is started, or FileNotFoundError for a missing file
AddAttachment(a) ==
    /\ up.pc = "idle"
    /\ Len(up.recs) < MaxAtts
    /\ LET u == [up EXCEPT !.recs = Append(@, [hash |-> a.hash, status |-> PENDING,
                                                url |-> NoUrl]),
                           !.att = a, !.tries = 0, !.result = NoResult]
       IN  up' = IF a.kind = "missing"
                 THEN [u EXCEPT !.pc = "write",
                                !.result = [NoResult EXCEPT !.raised = TRUE]]
                 ELSE [u EXCEPT !.pc = "call"]
    /\ UNCHANGED <<orchVars, rl, gw, cb, tbl, kb, stat, ord, dup, gate>>

\* upload_file / upload_base64_image -> upload_bytes, up to the network: the
\* size check, the hash, the cache look-up
ClientCall ==
    /\ up.pc = "call"
    /\ up' = IF TooLarge(up.att.hash)
             THEN Returned(up, NoResult)
             ELSE IF up.cache[up.att.hash] # NoUrl
             THEN Returned(up, [success |-> TRUE, url |-> up.cache[up.att.hash],
                                raised |-> FALSE])
             ELSE [up EXCEPT !.pc = "net"]
    /\ UNCHANGED <<orchVars, rl, gw, cb, tbl, kb, stat, ord, dup, gate>>

\* _upload_simple / _upload_bytes_internal: one POST /upload and what is made
\* of its answer; a transport error is retried for a file (and raised after
\* the last attempt), and is a failed result for embedded data
NetworkAttempt(resp) ==
    /\ up.pc = "net"
    /\ LET u == [up EXCEPT !.tries = @ + 1,
                           !.served = IF resp = "url" THEN @ + 1 ELSE @]
       IN  up' = CASE resp = "url" ->
                        Returned(u, [success |-> TRUE, url |-> Url(u.served),
                                     raised |-> FALSE])
                   [] resp = "nourl" ->
                        Returned(u, [success |-> TRUE, url |-> NoUrl,
                                     raised |-> FALSE])
                   [] resp \in {"nodata", "status"} ->
                        Returned(u, NoResult)
                   [] resp = "transport" ->
                        IF up.att.kind = "embedded"
                        THEN Returned(u, NoResult)
                        ELSE IF u.tries < Attempts
                        THEN u
                        ELSE Returned(u, [NoResult EXCEPT !.raised = TRUE])
    /\ UNCHANGED <<orchVars, rl, gw, cb, tbl, kb, stat, ord, dup, gate>>

\* _upload_attachments: if result.success: update_attachment_status(UPLOADED,
\* superops_url=result.url) and successful_attachments += 1; else, and in the
\* except clause, FAILED and failed_attachments += 1
WriteStatus ==
    /\ up.pc = "write"
    /\ LET n == Len(up.recs)
       IN  up' = IF up.result.success
                 THEN [up EXCEPT !.recs[n].status = UPLOADED,
                                 !.recs[n].url = up.result.url,
                                 !.succ = @ + 1,
                                 !.pc = "idle"]
                 ELSE [up EXCEPT !.recs[n].status = FAILED,
                                 !.fail = @ + 1,
                                 !.pc = "idle"]
    /\ UNCHANGED <<orchVars, rl, gw, cb, tbl, kb, stat, ord, dup, gate>>

InitUpload ==
    /\ runs = <<>>
    /\ docs = [d \in Locators |-> NoDoc]
    /\ atts = <<>>
    /\ articles = [d \in Locators |-> 0]
    /\ cfg = [dry_run |-> FALSE, continue_on_error |-> TRUE,
              skip_existing |-> FALSE, batch_size |-> 1]
    /\ pc = "gather"
    /\ cur = NoRun
    /\ addIdx = 0
    /\ work = <<>>
    /\ batchStart = 0
    /\ task = [d \in Locators |-> NoTask]
    /\ shutdown = FALSE
    /\ outcome = "none"
    /\ inv = NoInv
    /\ cats = NoCats
    /\ up = NoUp
    /\ rl = NoRl
    /\ gw = NoGw
    /\ cb = NoCb
    /\ tbl = NoTbl
    /\ kb = NoKb
    /\ stat = NoStat
    /\ ord = NoOrd
    /\ dup = NoDup
    /\ gate = NoGate

NextUpload ==
    \/ \E h \in Hashes, k \in AttKinds : AddAttachment([hash |-> h, kind |-> k])
    \/ ClientCall
    \/ \E resp \in Responses : NetworkAttempt(resp)
    \/ WriteStatus

SpecUpload == InitUpload /\ [][NextUpload]_vars

(* -------------------------- rate limiter ------------------------------- *)
\* SpecLimiter follows one RateLimiter(Rate, Per) and the monotonic clock, in
\* ticks.  The callers are serialised by the limiter's lock, so one caller at
\* a time is inside acquire().  rl.tokens holds self.tokens in units of 1/Per
\* token, which keeps the refill elapsed * (rate / per) exact: one token is
\* Per units, the refill of one tick is Rate units.
Capacity == Rate * Per

\* wait_time = 1.0 / (rate / per): asyncio.sleep returns no earlier
WaitTicks == (Per + Rate - 1) \div Rate

\* one pass of acquire() from the test of its while loop: with tokens left
\* the loop is over and one is taken; else the refill from the time elapsed
\* since updated_at, and the sleep when that leaves none
AcquirePass(r) ==
    IF r.tokens > 0
    THEN [r EXCEPT !.tokens = @ - Per, !.granted = @ + 1, !.total = @ + 1,
                   !.pc = "ready"]
    ELSE LET t == Min(Capacity, r.tokens + (r.now - r.updated_at) * Rate)
         IN  IF t <= 0
             THEN [r EXCEPT !.tokens = t, !.updated_at = r.now,
                            !.pc = "sleep", !.wake = r.now + WaitTicks]
             ELSE [r EXCEPT !.tokens = t - Per, !.updated_at = r.now,
                            !.granted = @ + 1, !.total = @ + 1,
                            !.pc = "ready"]

\* time.monotonic() advances; rl.granted counts the acquisitions granted at
\* the present instant, rl.total those granted since construction
Tick ==
    /\ rl.now < MaxTime
    /\ rl' = [rl EXCEPT !.now = @ + 1, !.granted = 0]
    /\ UNCHANGED <<orchVars, up, gw, cb, tbl, kb, stat, ord, dup, gate>>

\* a caller enters acquire()
Acquire ==
    /\ rl.pc = "ready"
    /\ rl' = AcquirePass(rl)
    /\ UNCHANGED <<orchVars, up, gw, cb, tbl, kb, stat, ord, dup, gate>>

\* asyncio.sleep(wait_time) is over: the loop test again
Wake ==
    /\ rl.pc = "sleep"
    /\ rl.now >= rl.wake
    /\ rl' = AcquirePass(rl)
    /\ UNCHANGED <<orchVars, up, gw, cb, tbl, kb, stat, ord, dup, gate>>

NextLimiter ==
    \/ Tick
    \/ Acquire
    \/ Wake

SpecLimiter == InitUpload /\ [][NextLimiter]_vars

(* ------------------------- gateway calls ------------------------------- *)
\* SpecGateway follows SuperOpsGraphQLClient._execute, called for the
\* create-article mutation of a document in progress: the attempts of its
\* retry decorator, the token each attempt takes from the rate limiter, the
\* answers of the service, and what _process_document's except clause stores
\* when the call raises.

\* @retry(stop=stop_after_attempt(3))
ExecuteAttempts == 3

\* wait_exponential(multiplier=2, min=4, max=60)
WaitMultiplier == 2
WaitMin == 4
WaitMax == 60

Max(a, b) == IF a > b THEN a ELSE b

\* tenacity's wait_exponential after the n-th failed attempt: multiplier *
\* 2^(n - offset), clamped; the release installed decides the offset (the
\* dependency is not pinned): 1 in current releases, 0 in old ones
WaitExponential(n, offset) ==
    Max(WaitMin, Min(WaitMultiplier * 2^(n - offset), WaitMax))

\* what one POST can answer: data, a body with "errors", a body that is not
\* JSON, an error status (with a plain body, or 500 with an "errors" body),
\* or nothing (transport error)
Answers == {"data", "errors", "malformed", "401", "429", "500", "500errors",
            "transport"}

\* httpx.HTTPError and its subclasses as _execute lets them out: the
\* HTTPStatusError re-raised at the end of its except clause, a transport
\* error never caught
Retried == {"401", "429", "500", "transport"}

\* the exception one attempt ends with
Raised(answer) ==
    CASE answer \in {"errors", "500errors"} -> "GraphQLError"
      [] answer = "malformed" -> "JSONDecodeError"
      [] answer = "transport" -> "TransportError"
      [] OTHER -> "HTTPStatusError " \o answer

\* retry_if_exception_type(httpx.HTTPError) and stop_after_attempt(3)
RetryAgain(answer, attempt) ==
    answer \in Retried /\ attempt < ExecuteAttempts

\* what the caller of _execute sees at the end: the data, the exception of a
\* failure that is not retried, or tenacity's RetryError around the last one
Outcome(answer) ==
    IF answer = "data" THEN "data"
    ELSE IF answer \in Retried THEN "RetryError"
    ELSE Raised(answer)

\* create_kb_article -> _execute for a document in progress
Execute(d) ==
    /\ gw.pc = "idle"
    /\ gw.calls < MaxCalls
    /\ docs[d].status = IN_PROGRESS
    /\ gw' = [gw EXCEPT !.pc = "acquire", !.doc = d, !.attempt = 1, !.sent = 0,
                        !.acquired = 0, !.waits = <<>>, !.answers = <<>>,
                        !.result = "none", !.calls = @ + 1]
    /\ UNCHANGED <<orchVars, up, rl, cb, tbl, kb, stat, ord, dup, gate>>

\* the gateway call waits for the limiter and has its token when acquire()
\* returns
Granted(g, r) ==
    IF r.pc = "ready"
    THEN [g EXCEPT !.pc = "post", !.acquired = @ + 1]
    ELSE [g EXCEPT !.pc = "limited"]

\* an attempt begins: await self.rate_limiter.acquire()
AttemptAcquire ==
    /\ gw.pc = "acquire"
    /\ rl.pc = "ready"
    /\ rl' = AcquirePass(rl)
    /\ gw' = Granted(gw, rl')
    /\ UNCHANGED <<orchVars, up, cb, tbl, kb, stat, ord, dup, gate>>

\* the limiter's sleep is over
AttemptWake ==
    /\ gw.pc = "limited"
    /\ rl.pc = "sleep"
    /\ rl.now >= rl.wake
    /\ rl' = AcquirePass(rl)
    /\ gw' = Granted(gw, rl')
    /\ UNCHANGED <<orchVars, up, cb, tbl, kb, stat, ord, dup, gate>>

\* the request is sent and answered; the data are returned, or the attempt
\* raises: tenacity sleeps and starts the next attempt, or the call ends
Post(answer) ==
    /\ gw.pc = "post"
    /\ LET g == [gw EXCEPT !.sent = @ + 1, !.answers = Append(@, answer)]
       IN  gw' = IF RetryAgain(answer, gw.attempt)
                 THEN [g EXCEPT !.pc = "acquire", !.attempt = @ + 1,
                                !.waits = Append(@, WaitExponential(gw.attempt,
                                                                    gw.offset))]
                 ELSE [g EXCEPT !.pc = IF answer = "data" THEN "idle" ELSE "raised",
                                !.result = Outcome(answer)]
    /\ UNCHANGED <<orchVars, up, rl, cb, tbl, kb, stat, ord, dup, gate>>

\* except Exception in _process_document: _handle_document_error stores
\* str(error) with the status FAILED
StoreError ==
    /\ gw.pc = "raised"
    /\ docs' = UpdateDocumentStatus(docs, gw.doc, FAILED, 0, gw.result)
    /\ gw' = [gw EXCEPT !.pc = "idle"]
    /\ UNCHANGED <<runs, atts, articles, cfg, pc, cur, addIdx, work, batchStart,
                   task, shutdown, outcome, inv, cats, up, rl, cb, tbl, kb, stat, ord, dup, gate>>

InitGateway ==
    /\ runs = <<NewRunRow(NumDocs)>>
    /\ docs = [d \in Locators |-> [run |-> 1, status |-> IN_PROGRESS,
                                   sid |-> 0, err |-> ""]]
    /\ atts = <<[s \in AttachmentStatus |-> 0]>>
    /\ articles = [d \in Locators |-> 0]
    /\ cfg = [dry_run |-> FALSE, continue_on_error |-> TRUE,
              skip_existing |-> FALSE, batch_size |-> NumDocs]
    /\ pc = "gather"
    /\ cur = [id |-> 1] @@ NewRunRow(NumDocs)
    /\ addIdx = 0
    /\ work = <<>>
    /\ batchStart = 0
    /\ task = [d \in Locators |-> NoTask]
    /\ shutdown = FALSE
    /\ outcome = "none"
    /\ inv = NoInv
    /\ cats = NoCats
    /\ up = NoUp
    /\ rl = NoRl
    /\ gw \in {[NoGw EXCEPT !.offset = o] : o \in {0, 1}}
    /\ cb = NoCb
    /\ tbl = NoTbl
    /\ kb = NoKb
    /\ stat = NoStat
    /\ ord = NoOrd
    /\ dup = NoDup
    /\ gate = NoGate

NextGateway ==
    \/ \E d \in Locators : Execute(d)
    \/ AttemptAcquire
    \/ AttemptWake
    \/ Tick
    \/ \E answer \in Answers : Post(answer)
    \/ StoreError

SpecGateway == InitGateway /\ [][NextGateway]_vars

(* ------------------------- circuit breaker ----------------------------- *)
\* SpecBreaker follows the CircuitBreaker of one error category and the
\* wall clock, in ticks: the failures ErrorHandler records into it, the
\* successes recorded, and what is_open() answers.

\* CircuitBreaker.record_failure
RecordFailure(b) ==
    [b EXCEPT !.count = @ + 1,
              !.last = b.now,
              !.state = IF b.count + 1 >= Threshold THEN "open" ELSE @,
              !.events = Append(@, [kind |-> "failure", at |-> b.now]),
              !.open = FALSE]

\* CircuitBreaker.record_success
RecordSuccess(b) ==
    [b EXCEPT !.count = IF b.state = "half-open" THEN 0 ELSE @,
              !.state = IF b.state = "half-open" THEN "closed" ELSE @,
              !.events = Append(@, [kind |-> "success", at |-> b.now]),
              !.open = FALSE]

\* CircuitBreaker.is_open: the answer, and the move to half-open once the
\* recovery timeout has passed
IsOpen(b) ==
    IF b.state = "open"
    THEN IF b.now - b.last > Window
         THEN [b EXCEPT !.state = "half-open", !.open = FALSE, !.at = b.now]
         ELSE [b EXCEPT !.open = TRUE, !.at = b.now]
    ELSE [b EXCEPT !.open = FALSE, !.at = b.now]

\* time.time() advances
BreakerTick ==
    /\ cb.now < MaxTime
    /\ cb' = [cb EXCEPT !.now = @ + 1]
    /\ UNCHANGED <<orchVars, up, rl, gw, tbl, kb, stat, ord, dup, gate>>

\* ErrorHandler._should_trip_circuit_breaker: record_failure, then is_open
ShouldTrip ==
    /\ Len(cb.events) < MaxEvents
    /\ cb' = IsOpen(RecordFailure(cb))
    /\ UNCHANGED <<orchVars, up, rl, gw, tbl, kb, stat, ord, dup, gate>>

\* a success is recorded
Success ==
    /\ Len(cb.events) < MaxEvents
    /\ cb' = RecordSuccess(cb)
    /\ UNCHANGED <<orchVars, up, rl, gw, tbl, kb, stat, ord, dup, gate>>

\* the breaker is asked
Ask ==
    /\ cb' = IsOpen(cb)
    /\ UNCHANGED <<orchVars, up, rl, gw, tbl, kb, stat, ord, dup, gate>>

NextBreaker ==
    \/ BreakerTick
    \/ ShouldTrip
    \/ Success
    \/ Ask

SpecBreaker == InitUpload /\ [][NextBreaker]_vars

(* ----------------------- state store, call by call --------------------- *)
\* SpecStore follows the documents table under any sequence of calls of
\* add_document, update_document_status and get_documents_by_status, with
\* the rows kept in insertion order.  Document ids are the locators, their
\* order standing for the order of the TEXT ids; runs are 1..MaxRuns.
StoreStatuses == {PENDING, COMPLETED}

\* the rows of the table that have the id
RowsOf(rows, id) == {i \in 1..Len(rows) : rows[i].id = id}

\* an insert that would not replace
InsertAlways(rows, rec) == Append(rows, rec)

\* INSERT OR REPLACE INTO documents: id is the primary key, a row of the
\* same id is deleted and the new row inserted
InsertOrReplace(rows, rec) ==
    Append(SelectSeq(rows, LAMBDA r : r.id # rec.id), rec)

\* UPDATE documents SET status = ? ... WHERE id = ?
UpdateWhereId(rows, id, status) ==
    [i \in 1..Len(rows) |->
        IF rows[i].id = id THEN [rows[i] EXCEPT !.status = status] ELSE rows[i]]

RECURSIVE Ascending(_)
\* ORDER BY id
Ascending(S) ==
    IF S = {} THEN <<>>
    ELSE LET m == CHOOSE x \in S : \A y \in S : x <= y
         IN  <<m>> \o Ascending(S \ {m})

\* SELECT * FROM documents WHERE run_id = ? AND status = ? ORDER BY id
SelectByStatus(rows, run, status) ==
    Ascending({rows[i].id : i \in {k \in 1..Len(rows) :
                                      rows[k].run = run /\ rows[k].status = status}})

\* the call made now, marked as a repetition when the last call was the same
Call(op, id, run, status) ==
    LET c == [NoCall EXCEPT !.op = op, !.id = id, !.run = run, !.status = status]
    IN  [c EXCEPT !.repeat = /\ tbl.last.op = op
                             /\ tbl.last.id = id
                             /\ tbl.last.run = run
                             /\ tbl.last.status = status]

\* Database.add_document(run_id, document)
StoreAdd(run, id, status) ==
    /\ tbl' = [rows |-> InsertOrReplace(tbl.rows, [id |-> id, run |-> run,
                                                  status |-> status]),
               before |-> tbl.rows,
               last |-> Call("add", id, run, status)]
    /\ UNCHANGED <<orchVars, up, rl, gw, cb, kb, stat, ord, dup, gate>>

\* Database.update_document_status(document_id, status): the statement is
\* executed and committed, nothing is read back, None is returned
StoreUpdate(id, status) ==
    /\ tbl' = [rows |-> UpdateWhereId(tbl.rows, id, status),
               before |-> tbl.rows,
               last |-> [Call("update", id, 0, status) EXCEPT
                            !.found = RowsOf(tbl.rows, id) # {},
                            !.raised = FALSE]]
    /\ UNCHANGED <<orchVars, up, rl, gw, cb, kb, stat, ord, dup, gate>>

\* Database.get_documents_by_status(run_id, status)
StoreGet(run, status) ==
    /\ tbl' = [rows |-> tbl.rows,
               before |-> tbl.rows,
               last |-> [Call("get", 0, run, status) EXCEPT
                            !.result = SelectByStatus(tbl.rows, run, status)]]
    /\ UNCHANGED <<orchVars, up, rl, gw, cb, kb, stat, ord, dup, gate>>

NextStore ==
    \/ \E run \in 1..MaxRuns, id \in Locators, status \in StoreStatuses :
           StoreAdd(run, id, status)
    \/ \E id \in Locators, status \in StoreStatuses : StoreUpdate(id, status)
    \/ \E run \in 1..MaxRuns, status \in StoreStatuses : StoreGet(run, status)

SpecStore == InitUpload /\ [][NextStore]_vars

(* ------------------------- remote listing ------------------------------ *)
\* SpecListing follows check_article_exists(title) over a remote listing of
\* knowledge-base items that does not change during the call.  An item is
\* its type and its name; its itemId is its position in the listing.
ItemTypes == {"ARTICLE", "COLLECTION"}
ItemNames == {"guide", "notes"}
Items == [type : ItemTypes, name : ItemNames]

\* the listings of up to MaxItems items
Listings == UNION {[1..n -> Items] : n \in 0..MaxItems}

\* get_kb_articles(page, per_page): the positions of the items of the page
PageOf(items, page) ==
    {i \in 1..Len(items) : (page - 1) * PageSize < i /\ i <= page * PageSize}

\* a comparison that would take a collection for an article
IsNamed(item, title) == item.name = title

\* article.get("itemType") != "COLLECTION" and article.get("name") == title
IsArticleTitled(item, title) ==
    item.type # "COLLECTION" /\ item.name = title

\* the matching items of a page, by position
Matches(items, page, title) ==
    {i \in PageOf(items, page) : IsArticleTitled(items[i], title)}

\* SuperOpsGraphQLClient.check_article_exists is called
CheckStart(title) ==
    /\ kb.pc = "idle"
    /\ kb' = [kb EXCEPT !.title = title, !.pc = "page", !.page = 1, !.result = 0]
    /\ UNCHANGED <<orchVars, up, rl, gw, cb, tbl, stat, ord, dup, gate>>

\* one pass of its loop: the page is fetched; an empty page ends the search;
\* the first matching item of the page is returned; page * page size at or
\* above totalCount ends the search; else the next page
CheckPage ==
    /\ kb.pc = "page"
    /\ LET hits == Matches(kb.items, kb.page, kb.title)
       IN  kb' = IF PageOf(kb.items, kb.page) = {}
                 THEN [kb EXCEPT !.pc = "done", !.result = 0]
                 ELSE IF hits # {}
                 THEN [kb EXCEPT !.pc = "done",
                                 !.result = CHOOSE i \in hits :
                                                \A k \in hits : i <= k]
                 ELSE IF kb.page * PageSize >= Len(kb.items)
                 THEN [kb EXCEPT !.pc = "done", !.result = 0]
                 ELSE [kb EXCEPT !.page = @ + 1]
    /\ UNCHANGED <<orchVars, up, rl, gw, cb, tbl, stat, ord, dup, gate>>

InitListing ==
    /\ runs = <<>>
    /\ docs = [d \in Locators |-> NoDoc]
    /\ atts = <<>>
    /\ articles = [d \in Locators |-> 0]
    /\ cfg = [dry_run |-> FALSE, continue_on_error |-> TRUE,
              skip_existing |-> TRUE, batch_size |-> 1]
    /\ pc = "gather"
    /\ cur = NoRun
    /\ addIdx = 0
    /\ work = <<>>
    /\ batchStart = 0
    /\ task = [d \in Locators |-> NoTask]
    /\ shutdown = FALSE
    /\ outcome = "none"
    /\ inv = NoInv
    /\ cats = NoCats
    /\ up = NoUp
    /\ rl = NoRl
    /\ gw = NoGw
    /\ cb = NoCb
    /\ tbl = NoTbl
    /\ kb \in {[NoKb EXCEPT !.items = l] : l \in Listings}
    /\ stat = NoStat
    /\ ord = NoOrd
    /\ dup = NoDup
    /\ gate = NoGate

NextListing ==
    \/ \E title \in ItemNames : CheckStart(title)
    \/ CheckPage

SpecListing == InitListing /\ [][NextListing]_vars

(* --------------------------- statistics -------------------------------- *)
\* SpecStats follows one get_statistics(run) beside the document units that
\* write the run's rows: every write is one committed statement of its own
\* connection, and so is every SELECT of get_statistics (no transaction is
\* opened around the three of them).  Each document has one attachment.

\* SELECT status, COUNT(*) ... GROUP BY status: the statuses present, each
\* with the number of its rows
GroupCount(table, statuses) ==
    [st \in {table[d] : d \in Locators} \cap statuses |->
        Cardinality({d \in Locators : table[d] = st})]

\* the counts of the store as it stands
StoreCounts(documents, attachments) ==
    <<GroupCount(documents, DocumentStatus), GroupCount(attachments, AttachmentStatus)>>

\* a write commits: the store takes the new tables, and a get_statistics in
\* flight has one more state of the store between its call and its return
Commit(documents, attachments) ==
    stat' = [stat EXCEPT
                !.documents = documents,
                !.attachments = attachments,
                !.seen = IF stat.pc \in {"idle", "done"} THEN @
                         ELSE @ \cup {StoreCounts(documents, attachments)}]

\* _process_document: update_document_status(id, IN_PROGRESS)
UnitMark(d) ==
    /\ stat.documents[d] = PENDING
    /\ Commit([stat.documents EXCEPT ![d] = IN_PROGRESS], stat.attachments)
    /\ UNCHANGED <<orchVars, up, rl, gw, cb, tbl, kb, ord, dup, gate>>

\* _upload_attachments: add_attachment with status PENDING
UnitAddAttachment(d) ==
    /\ stat.documents[d] = IN_PROGRESS
    /\ stat.attachments[d] = "none"
    /\ Commit(stat.documents, [stat.attachments EXCEPT ![d] = PENDING])
    /\ UNCHANGED <<orchVars, up, rl, gw, cb, tbl, kb, ord, dup, gate>>

\* _upload_attachments: update_attachment_status after the upload
UnitAttachmentStatus(d, status) ==
    /\ stat.documents[d] = IN_PROGRESS
    /\ stat.attachments[d] = PENDING
    /\ Commit(stat.documents, [stat.attachments EXCEPT ![d] = status])
    /\ UNCHANGED <<orchVars, up, rl, gw, cb, tbl, kb, ord, dup, gate>>

\* _process_document: update_document_status(id, COMPLETED), or FAILED by
\* _handle_document_error
UnitEnd(d, status) ==
    /\ stat.documents[d] = IN_PROGRESS
    /\ stat.attachments[d] \in {UPLOADED, FAILED}
    /\ Commit([stat.documents EXCEPT ![d] = status], stat.attachments)
    /\ UNCHANGED <<orchVars, up, rl, gw, cb, tbl, kb, ord, dup, gate>>

\* Database.get_statistics is called
StatsCall ==
    /\ stat.pc = "idle"
    /\ stat' = [stat EXCEPT !.pc = "documents",
                    !.seen = {StoreCounts(stat.documents, stat.attachments)}]
    /\ UNCHANGED <<orchVars, up, rl, gw, cb, tbl, kb, ord, dup, gate>>

\* its first SELECT: documents by status
StatsDocuments ==
    /\ stat.pc = "documents"
    /\ stat' = [stat EXCEPT !.pc = "attachments",
                    !.doc_stats = GroupCount(stat.documents, DocumentStatus)]
    /\ UNCHANGED <<orchVars, up, rl, gw, cb, tbl, kb, ord, dup, gate>>

\* its second SELECT: attachments by status
StatsAttachments ==
    /\ stat.pc = "attachments"
    /\ stat' = [stat EXCEPT !.pc = "times",
                    !.att_stats = GroupCount(stat.attachments, AttachmentStatus)]
    /\ UNCHANGED <<orchVars, up, rl, gw, cb, tbl, kb, ord, dup, gate>>

\* its third SELECT (first and last processed_at, not followed) and return
StatsReturn ==
    /\ stat.pc = "times"
    /\ stat' = [stat EXCEPT !.pc = "done"]
    /\ UNCHANGED <<orchVars, up, rl, gw, cb, tbl, kb, ord, dup, gate>>

NextStats ==
    \/ \E d \in Locators : UnitMark(d)
    \/ \E d \in Locators : UnitAddAttachment(d)
    \/ \E d \in Locators, status \in {UPLOADED, FAILED} :
           UnitAttachmentStatus(d, status)
    \/ \E d \in Locators, status \in {COMPLETED, FAILED} : UnitEnd(d, status)
    \/ StatsCall
    \/ StatsDocuments
    \/ StatsAttachments
    \/ StatsReturn

SpecStats == InitUpload /\ [][NextStats]_vars

(* ------------------------ order of migration --------------------------- *)
\* SpecOrder follows get_migration_order and the work list built from it
\* over every source index of NumNodes documents.  refs[n] is the set
\* graph[n] in the order its iteration yields (a set of strings iterates in
\* an order the program does not choose); a document does not reference
\* itself (_extract_relationships skips it).
Nodes == 1..NumNodes

\* the ways one document's references can be iterated
RefLists(n) ==
    {l \in UNION {[1..k -> Nodes \ {n}] : k \in 0..(NumNodes - 1)} :
        \A i, j \in 1..Len(l) : l[i] = l[j] => i = j}

\* the source indexes: the references of documents 1..n, for each document
RECURSIVE IndexesOf(_)
IndexesOf(n) ==
    IF n = 0 THEN {<<>>}
    ELSE {Append(g, l) : g \in IndexesOf(n - 1), l \in RefLists(n)}

Indexes == IndexesOf(NumNodes)

\* build_dependency_graph: the documents reached from a set of documents
\* along the references of the graph, in at most k steps
RECURSIVE ReachedFrom(_, _, _)
ReachedFrom(refs, set, k) ==
    IF k = 0 THEN set
    ELSE ReachedFrom(refs, set \cup UNION {Range(refs[n]) : n \in set}, k - 1)

\* no document reaches itself along references
Acyclic(refs) ==
    \A n \in Nodes : n \notin ReachedFrom(refs, Range(refs[n]), NumNodes)

\* visit(node) of get_migration_order, called at nesting depth `depth`: the
\* call itself needs a frame, then the visited set is consulted, the
\* references are visited and the node appended
RECURSIVE VisitNode(_, _, _, _), VisitEach(_, _, _, _)
VisitNode(refs, node, st, depth) ==
    IF st.raised THEN st
    ELSE IF depth > RecursionLimit THEN [st EXCEPT !.raised = TRUE]
    ELSE IF node \in st.visited THEN st
    ELSE LET s1 == [st EXCEPT !.visited = @ \cup {node}]
             s2 == VisitEach(refs, refs[node], s1, depth + 1)
         IN  IF s2.raised THEN s2
             ELSE [s2 EXCEPT !.order = Append(@, node)]
VisitEach(refs, list, st, depth) ==
    IF list = <<>> THEN st
    ELSE VisitEach(refs, Tail(list), VisitNode(refs, Head(list), st, depth),
                   depth)

\* get_migration_order: every locator of the metadata cache visited in turn
MigrationOrderOf(refs) ==
    VisitEach(refs, [i \in 1..NumNodes |-> i],
              [visited |-> {}, order |-> <<>>, raised |-> FALSE], 1)

\* a work list left in the order of the store's rows
KeepOrder(fetched, order) == fetched

\* documents.sort(key=order_map.get(d.id, len(order_map))): a stable sort,
\* the documents of the order by their place in it, then the others as
\* they stood
SortByOrder(fetched, order) ==
    SelectSeq(order, LAMBDA d : d \in Range(fetched))
        \o SelectSeq(fetched, LAMBDA d : d \notin Range(order))

\* _get_documents_to_migrate: the PENDING rows in id order, those the filter
\* pattern matches (`passing`), the first `limit` of them (0: no limit),
\* sorted by the migration order
WorkListOf(order, passing, limit) ==
    LET fetched == SelectSeq([i \in 1..NumNodes |-> i],
                             LAMBDA d : d \in passing)
        limited == IF limit = 0 THEN fetched
                   ELSE SubSeq(fetched, 1, Min(limit, Len(fetched)))
    IN  SortByOrder(limited, order)

\* CSVMetadataParser.get_migration_order runs to its end, or a nested call
\* beyond the interpreter's limit raises out of it
ComputeOrder ==
    /\ ord.pc = "idle"
    /\ LET r == MigrationOrderOf(ord.refs)
       IN  ord' = [ord EXCEPT !.pc = IF r.raised THEN "raised" ELSE "ordered",
                              !.order = r.order,
                              !.raised = r.raised]
    /\ UNCHANGED <<orchVars, up, rl, gw, cb, tbl, kb, stat, dup, gate>>

\* MigrationOrchestrator._get_documents_to_migrate with the order computed
BuildWorkList(passing, limit) ==
    /\ ord.pc = "ordered"
    /\ ord' = [ord EXCEPT !.pc = "built",
                          !.work = WorkListOf(ord.order, passing, limit)]
    /\ UNCHANGED <<orchVars, up, rl, gw, cb, tbl, kb, stat, dup, gate>>

InitOrder ==
    /\ runs = <<>>
    /\ docs = [d \in Locators |-> NoDoc]
    /\ atts = <<>>
    /\ articles = [d \in Locators |-> 0]
    /\ cfg = [dry_run |-> FALSE, continue_on_error |-> TRUE,
              skip_existing |-> FALSE, batch_size |-> 1]
    /\ pc = "gather"
    /\ cur = NoRun
    /\ addIdx = 0
    /\ work = <<>>
    /\ batchStart = 0
    /\ task = [d \in Locators |-> NoTask]
    /\ shutdown = FALSE
    /\ outcome = "none"
    /\ inv = NoInv
    /\ cats = NoCats
    /\ up = NoUp
    /\ rl = NoRl
    /\ gw = NoGw
    /\ cb = NoCb
    /\ tbl = NoTbl
    /\ kb = NoKb
    /\ stat = NoStat
    /\ ord \in {[NoOrd EXCEPT !.refs = g] : g \in Indexes}
    /\ dup = NoDup
    /\ gate = NoGate

NextOrder ==
    \/ ComputeOrder
    \/ \E passing \in SUBSET Nodes, limit \in 0..NumNodes :
           BuildWorkList(passing, limit)

SpecOrder == InitOrder /\ [][NextOrder]_vars

(* ------------------------ concurrent uploads --------------------------- *)
\* SpecDup follows the units of one batch, run concurrently by gather, each
\* uploading one content through upload_bytes of the one attachment client.
\* A unit runs from one await to the next: the size check, the hash and the
\* look-up in _file_cache are one step, the network upload call
\* (_upload_bytes_internal) is the await, the cache entry and the return
\* follow it.  Every successful upload call is given a URL of its own by the
\* remote service.
UploadUrl(h, k) == 300 + 10 * h + k

\* the units inside their network upload call
Uploading == {u \in 1..MaxUnits : dup.unit[u].pc = "network"}

\* upload_bytes up to its await: a cached hash returns the cached URL without
\* a network call, else _upload_bytes_internal is entered
UploadBytesStart(u, h) ==
    /\ dup.unit[u].pc = "idle"
    /\ dup' = [dup EXCEPT !.unit[u] =
                  IF dup.cache[h] # 0
                  THEN [pc |-> "done", hash |-> h, url |-> dup.cache[h],
                        beside |-> Uploading]
                  ELSE [pc |-> "network", hash |-> h, url |-> 0,
                        beside |-> Uploading]]
    /\ UNCHANGED <<orchVars, up, rl, gw, cb, tbl, kb, stat, ord, gate>>

\* _upload_bytes_internal returns: on success the URL is cached under the
\* hash and returned; a failed upload caches nothing
UploadBytesEnd(u, ok) ==
    /\ dup.unit[u].pc = "network"
    /\ LET h == dup.unit[u].hash
           url == UploadUrl(h, dup.calls[h] + 1)
       IN  dup' = [dup EXCEPT
                      !.calls[h] = @ + 1,
                      !.cache[h] = IF ok THEN url ELSE @,
                      !.unit[u].pc = IF ok THEN "done" ELSE "failed",
                      !.unit[u].url = IF ok THEN url ELSE 0]
    /\ UNCHANGED <<orchVars, up, rl, gw, cb, tbl, kb, stat, ord, gate>>

NextDup ==
    \/ \E u \in 1..MaxUnits, h \in Contents : UploadBytesStart(u, h)
    \/ \E u \in 1..MaxUnits, ok \in BOOLEAN : UploadBytesEnd(u, ok)

SpecDup == InitUpload /\ [][NextDup]_vars

(* --------------------- upload concurrency gate ------------------------- *)
\* SpecGate follows the attachment client's gate, the asyncio.Semaphore its
\* uploads enter with `async with`, for every rate_limit the configuration
\* accepts, and the uploads of the units of one batch.  A unit is "idle"
\* (no upload asked for), "waiting" (blocked in acquire), "holding" (inside
\* the gate, the HTTP request under way) or "done" (the upload completed or
\* failed and the gate was left).
GateValue(rate_limit) == rate_limit \div GateDivisor

\* `async with self._rate_limiter`, entry: Semaphore.acquire takes a permit
\* at once when the value is positive, else the caller waits
GateAcquire(u) ==
    /\ gate.unit[u] = "idle"
    /\ gate' = IF gate.value > 0
               THEN [gate EXCEPT !.value = @ - 1, !.unit[u] = "holding"]
               ELSE [gate EXCEPT !.unit[u] = "waiting"]
    /\ UNCHANGED <<orchVars, up, rl, gw, cb, tbl, kb, stat, ord, dup>>

\* a waiting caller is woken once a permit is there
GateWake(u) ==
    /\ gate.unit[u] = "waiting"
    /\ gate.value > 0
    /\ gate' = [gate EXCEPT !.value = @ - 1, !.unit[u] = "holding"]
    /\ UNCHANGED <<orchVars, up, rl, gw, cb, tbl, kb, stat, ord, dup>>

\* the request completes or fails (the HTTP client's timeout bounds it);
\* `async with`, exit: Semaphore.release
GateRelease(u) ==
    /\ gate.unit[u] = "holding"
    /\ gate' = [gate EXCEPT !.value = @ + 1, !.unit[u] = "done"]
    /\ UNCHANGED <<orchVars, up, rl, gw, cb, tbl, kb, stat, ord, dup>>

InitGate ==
    /\ runs = <<>>
    /\ docs = [d \in Locators |-> NoDoc]
    /\ atts = <<>>
    /\ articles = [d \in Locators |-> 0]
    /\ cfg = [dry_run |-> FALSE, continue_on_error |-> TRUE,
              skip_existing |-> FALSE, batch_size |-> 1]
    /\ pc = "gather"
    /\ cur = NoRun
    /\ addIdx = 0
    /\ work = <<>>
    /\ batchStart = 0
    /\ task = [d \in Locators |-> NoTask]
    /\ shutdown = FALSE
    /\ outcome = "none"
    /\ inv = NoInv
    /\ cats = NoCats
    /\ up = NoUp
    /\ rl = NoRl
    /\ gw = NoGw
    /\ cb = NoCb
    /\ tbl = NoTbl
    /\ kb = NoKb
    /\ stat = NoStat
    /\ ord = NoOrd
    /\ dup = NoDup
    /\ gate \in {[NoGate EXCEPT !.rate_limit = r, !.value = GateValue(r)] :
                    r \in RateLimitMin..RateLimitMax}

NextGate ==
    \/ \E u \in 1..MaxUnits : GateAcquire(u)
    \/ \E u \in 1..MaxUnits : GateWake(u)
    \/ \E u \in 1..MaxUnits : GateRelease(u)

\* the event loop runs every coroutine that is ready, and every request ends
SpecGate ==
    /\ InitGate
    /\ [][NextGate]_vars
    /\ \A u \in 1..MaxUnits :
           /\ WF_vars(GateAcquire(u))
           /\ WF_vars(GateWake(u))
           /\ WF_vars(GateRelease(u))

(* ============================ properties =============================== *)
\* the documents of a run that are not in a terminal status
NonTerminal(runId) ==
    {d \in Locators : docs[d].run = runId /\ docs[d].status \notin Terminal}

\* the message of a record mentions "not found"
MentionsNotFound(msg) == msg \in {"File not found"}

\* C1: with dry-run off, over the initial invocation, cancellations and
\* resumes of one run, create-article succeeds at most once per document and
\* a COMPLETED document has exactly one remote article.
C1_ArticleCreatedOnce ==
    ~cfg.dry_run =>
        \A d \in Locators :
            /\ articles[d] <= 1
            /\ docs[d].status = COMPLETED => articles[d] = 1

\* C2: after an invocation that stamped the run's completion, every locator
\* has its record in the run and the record is COMPLETED, FAILED or SKIPPED.
C2_CompletedRunIsTerminal ==
    (pc = "idle" /\ outcome = "returned" /\ cur # NoRun /\ runs[cur.id].completed)
        => \A d \in Locators :
               docs[d].run = cur.id /\ docs[d].status \in Terminal

\* C3: when a resume has adopted the run, no document of the run is still
\* IN_PROGRESS from a killed process, and every document not yet terminal is
\* in the work list the resume computes.
C3_KilledDocumentsResumed ==
    (pc = "getDocs" /\ inv.resume)
        => /\ \A d \in Locators :
                  docs[d].run = cur.id => docs[d].status # IN_PROGRESS
           /\ NonTerminal(cur.id) \subseteq Range(GetDocumentsToMigrate(cur.id, 0))

\* C4: an invocation cancelled while it holds a run leaves none of the run's
\* documents IN_PROGRESS (the ones it found so are PENDING), has the run's
\* counters in the store, and ends as a cancellation.
C4_CancellationReverts ==
    /\ (pc = "idle" /\ outcome = "cancelled" /\ cur # NoRun)
           => /\ \A d \in Locators :
                     docs[d].run = cur.id => docs[d].status # IN_PROGRESS
              /\ \A d \in inv.reverted : docs[d].status = PENDING
              /\ Counters(runs[cur.id]) = Counters(cur)
    /\ (pc = "idle" /\ inv.reverted # {}) => outcome = "cancelled"

\* C4 happens: a cancelled invocation whose run had a successful document
\* counted and a document in progress that went back to PENDING
C4_Witness ==
    /\ pc = "idle"
    /\ outcome = "cancelled"
    /\ cur # NoRun
    /\ cur.successful > 0
    /\ inv.reverted # {}

\* C5: the resume that follows an invocation ended early (shutdown after a
\* document error, or a run-level exception) is accepted, and its work list
\* is exactly the run's documents that are not terminal.
C5_ResumeAfterEarlyEnd ==
    /\ (pc = "startRun" /\ inv.prevEarly) => ResumeMigration # NoRun
    /\ (pc = "getDocs" /\ inv.prevEarly)
           => Range(GetDocumentsToMigrate(cur.id, 0)) = NonTerminal(cur.id)

\* C6: a resume of a run with no PENDING document, also when it follows
\* another such resume, never enters document processing, makes no
\* remote-creating call and leaves the run's stored counters as they were.
C6_ResumeWithNothingPendingIsIdempotent ==
    inv.zeroStreak >= 1
        => /\ ~inv.creates
           /\ pc \notin {"gather", "sleep", "finalize"}
           /\ Counters(runs[Len(runs)]) = Counters(inv.startRuns[Len(runs)])

\* C6 happens: the second of two resumes in a row with nothing PENDING is over
C6_Witness ==
    /\ pc = "idle"
    /\ inv.zeroStreak = 2
    /\ outcome \in {"returned", "rejected"}

\* C7: a resume with no previous run, with the latest run completed, or with
\* no PENDING document in the latest run is rejected with an error, and no
\* run row and no document record is modified.
C7_ResumeRejected ==
    (pc = "idle" /\ inv.nothing /\ outcome \notin {"unreachable", "cancelled", "error"})
        => /\ outcome = "rejected"
           /\ runs = inv.startRuns
           /\ docs = inv.startDocs

\* C8: once a batch is dealt with, every document whose unit raised is FAILED
\* with the exception's message, and the failed counter has grown by one per
\* such document.
C8_FailedCountedOnce ==
    (pc \in {"sleep", "finalize"})
        => /\ \A d \in inv.raised : docs[d].status = FAILED
           /\ \A d \in Locators :
                  task[d].pc = "handled" => docs[d].err = task[d].err
           /\ cur.failed = inv.startCounters.failed + Cardinality(inv.raised)

\* C9: between batches and after finalization the stored counters of the run
\* equal the numbers of its records per status.
C9_CountersMatchRecords ==
    (pc = "sleep" \/ (pc = "idle" /\ outcome = "returned" /\ cur # NoRun
                      /\ runs[cur.id].completed))
        => /\ runs[cur.id].successful = DocCount(cur.id, COMPLETED)
           /\ runs[cur.id].failed = DocCount(cur.id, FAILED)
           /\ runs[cur.id].skipped = DocCount(cur.id, SKIPPED)
           /\ runs[cur.id].succAtt = AttCount(cur.id, UPLOADED)
           /\ runs[cur.id].failAtt = AttCount(cur.id, FAILED)

\* C10: a document whose HTML file is missing ends SKIPPED with a message
\* mentioning "not found", without a gateway call and without an exception
\* leaving its unit, and the skipped counter has grown by one for it.
C10_MissingFileSkipped ==
    (pc \in {"sleep", "finalize"})
        => /\ \A d \in inv.missing :
                  /\ docs[d].status = SKIPPED
                  /\ MentionsNotFound(docs[d].err)
                  /\ d \notin inv.gateway
                  /\ d \notin inv.raised
           /\ cur.skipped >= inv.startCounters.skipped + Cardinality(inv.missing)

\* the ids of the remote articles that carry the title
ArticleIdsTitled(title) ==
    UNION {{ArticleId(e, k) : k \in 1..articles[e]} :
               e \in {x \in Locators : TransformedTitle(x) = title}}

\* C11: with skip-existing on, a document whose transformed title was the
\* title of an existing remote article when it was looked up never reaches
\* the create-article call and ends SKIPPED with that article's id.
C11_SkipExistingByTransformedTitle ==
    cfg.skip_existing =>
        \A d \in inv.matched :
            /\ task[d].pc \notin {"createArticle", "markCompleted", "persistSuccess"}
            /\ task[d].pc = "ok" =>
                   /\ docs[d].status = SKIPPED
                   /\ docs[d].sid \in ArticleIdsTitled(TransformedTitle(d))

\* C12: with dry-run on, the first invocation creates no article and no
\* collection, and every document whose unit ended without a skip and
\* without an error is COMPLETED with the placeholder id.
C12_DryRunMutatesNothing ==
    cfg.dry_run =>
        /\ ~inv.creates
        /\ cats.calls = 0
        /\ \A d \in Locators :
               (task[d].pc = "ok" /\ docs[d].status # SKIPPED)
                   => docs[d].status = COMPLETED /\ docs[d].sid = DryRunId(d)

\* C13: when the connectivity check reports the service unreachable, the
\* invocation ends at once with that error: between its start and its end
\* no run row and no document record is created or modified, no run is
\* adopted and no document is processed.
C13_UnreachableFailsFast ==
    [][ /\ (pc = "idle" /\ pc' = "connect") => UNCHANGED <<storeVars, articles>>
        /\ (pc = "connect" /\ outcome' = "unreachable")
               => /\ UNCHANGED <<storeVars, articles>>
                  /\ pc' = "idle"
                  /\ cur' = NoRun
                  /\ \A d \in Locators : task'[d] = NoTask ]_vars

\* C13 happens: the first invocation ended on an unreachable service
C13_Witness ==
    /\ pc = "idle"
    /\ outcome = "unreachable"
    /\ runs = <<>>

\* C14: once a gateway call of a document's processing has failed with an
\* authentication error, the run is aborted: the coordinating flow does not
\* go on to the pause before a next batch, and migrate() does not return
\* normally (the error reaches the caller).
C14_AuthFailureAbortsRun ==
    [][(\E d \in Locators : task[d].err = AuthenticationFailed)
         => pc' # "sleep" /\ outcome' # "returned"]_vars

\* C15: a document record's status only moves PENDING -> IN_PROGRESS ->
\* {COMPLETED, FAILED, SKIPPED}, whatever the orchestrator does to the store
\* (a later new run included); the one backward move is IN_PROGRESS ->
\* PENDING, made by the cancellation handling.
C15_StatusMovesForward ==
    [][\A d \in Locators :
          docs[d].run # 0 =>
              \/ docs'[d].status = docs[d].status
              \/ docs[d].status = PENDING /\ docs'[d].status = IN_PROGRESS
              \/ docs[d].status = IN_PROGRESS /\ docs'[d].status \in Terminal
              \/ /\ docs[d].status = IN_PROGRESS
                 /\ docs'[d].status = PENDING
                 /\ outcome' = "cancelled"]_vars

\* C16: creating a new (non-resumed) run leaves the document records of
\* every earlier run in place, with their run, status and remote id, and the
\* document counts get_statistics reports for an earlier run are the same
\* before and after.
C16_NewRunKeepsEarlierRecords ==
    [][(pc \in {"startRun", "addDocs"} /\ ~inv.resume) =>
          (\A r \in 1..(Len(runs') - 1) :
              /\ \A d \in Locators : docs[d].run = r => docs'[d] = docs[d]
              /\ \A s \in DocumentStatus : DocCount(r, s)' = DocCount(r, s))
      ]_vars

\* C19: when documents of one batch resolve the same collection name and
\* the collection is neither cached nor present remotely, at most one
\* create-collection call takes effect (the service ends with one collection
\* of the name) and the documents receive the same collection id.
C19_CollectionCreatedOnce ==
    /\ cats.remote <= 1
    /\ \A d, e \in Locators :
           cats.got[d] # 0 /\ cats.got[e] # 0 => cats.got[d] = cats.got[e]

\* C17: every attachment record with status UPLOADED carries a non-empty
\* remote URL, one the service returned for a successful upload; no record
\* becomes UPLOADED on a reported failure or on an answer without URL.
C17_UploadedHasUrl ==
    \A i \in 1..Len(up.recs) :
        up.recs[i].status = UPLOADED =>
            /\ up.recs[i].url # NoUrl
            /\ up.recs[i].url \in {Url(n) : n \in 1..up.served}

\* C18 as stated: two calls of the upload client with the same bytes, one
\* after the other, make exactly one network upload call between them, and
\* the second returns the URL of the first without a network call.
C18_OneNetworkCall ==
    \A h \in Hashes : \A i \in 1..(Len(up.hist[h]) - 1) :
        /\ up.hist[h][i].net + up.hist[h][i + 1].net = 1
        /\ up.hist[h][i + 1].net = 0
        /\ up.hist[h][i + 1].url = up.hist[h][i].url

\* C18, amended: when a call of the upload client returned success with a
\* URL, the next call with the same bytes makes no network call and returns
\* that URL.
C18_SecondCallFromCache ==
    \A h \in Hashes : \A i \in 1..(Len(up.hist[h]) - 1) :
        (up.hist[h][i].success /\ up.hist[h][i].url # NoUrl) =>
            /\ up.hist[h][i + 1].net = 0
            /\ up.hist[h][i + 1].success
            /\ up.hist[h][i + 1].url = up.hist[h][i].url

\* C18 happens: the same bytes were uploaded, with success and a URL, and
\* then handed to the client again
C18_Witness ==
    \E h \in Hashes :
        /\ Len(up.hist[h]) >= 2
        /\ up.hist[h][1].success
        /\ up.hist[h][1].url # NoUrl
        /\ up.hist[h][1].net = 1
        /\ up.hist[h][2].net = 0

\* C20: whatever the sequence and the timing of the acquire() calls (an idle
\* period longer than the period included), the limiter never holds more
\* than `rate` tokens and never grants more than `rate` acquisitions without
\* time elapsing between them.
C20_NoBurstAboveRate ==
    /\ rl.tokens <= Capacity
    /\ rl.granted <= Rate

\* C21: on a freshly constructed limiter the first `rate` acquire() calls
\* return without sleeping and the call after them, issued before the time
\* of one token's refill (per/rate) has passed, is delayed: it is not granted
\* before that time.
C21_CallAfterBurstWaits ==
    rl.now < WaitTicks => rl.total <= Rate

\* C22: every request sent to the remote service (each attempt of a GraphQL
\* call, each attachment upload) is preceded by the acquisition of one token
\* from the shared rate limiter: the requests a call has sent never
\* outnumber the tokens taken for them.
C22_RequestsAcquireToken ==
    /\ gw.sent <= gw.acquired
    /\ up.tries <= rl.total

\* C23: when the create-article call is answered HTTP 500 three times in a
\* row, exactly three attempts are made, with increasing waits between them
\* (at least 4, never above 60 seconds), and the document is then FAILED
\* with the HTTP error's own message stored.
C23_ThreeAttemptsThenFailed ==
    (gw.pc = "idle" /\ gw.answers = <<"500", "500", "500">>) =>
        /\ gw.sent = ExecuteAttempts
        /\ Len(gw.waits) = 2
        /\ gw.waits[1] >= WaitMin
        /\ gw.waits[1] < gw.waits[2]
        /\ gw.waits[2] <= WaitMax
        /\ docs[gw.doc].status = FAILED
        /\ docs[gw.doc].err = Raised("500")

\* C24: a gateway call that fails with a non-transient error (an HTTP 4xx
\* status other than 429, a malformed response) is attempted once, and one
\* that fails with a transient error (transport, 5xx, 429) up to three
\* times, in GraphQL calls and in attachment uploads alike.
C24_RetryOnlyTransient ==
    /\ \A i \in 1..(Len(gw.answers) - 1) :
           gw.answers[i] \notin {"401", "malformed"}
    /\ (gw.pc \in {"idle", "raised"} /\ gw.answers # <<>>
           /\ gw.answers[Len(gw.answers)] \in {"transport", "500", "429"})
          => Len(gw.answers) = ExecuteAttempts

\* C25: the circuit breaker reports open only when at least
\* failure_threshold failures were recorded within the cool-down window
\* before the report, none of them followed by a recorded success.
C25_OpenOnlyOnRecentFailures ==
    cb.open =>
        Cardinality({i \in 1..Len(cb.events) :
                        /\ cb.events[i].kind = "failure"
                        /\ cb.events[i].at >= cb.at - Window
                        /\ \A k \in (i + 1)..Len(cb.events) :
                               cb.events[k].kind = "failure"}) >= Threshold

\* C26: once the failures handled during a run have reached the circuit
\* breaker's threshold, the run is stopped: the coordinating flow does not
\* go on to the pause before a next batch.
C26_TrippedBreakerStopsRun ==
    [][(cur # NoRun /\ ~inv.resume /\ cur.failed >= Threshold)
          => pc' # "sleep"]_vars

\* C27: update_document_status called with a document id that has no
\* record signals an error to its caller, and changes no row.
C27_UpdateOfMissingFails ==
    (tbl.last.op = "update" /\ ~tbl.last.found) =>
        /\ tbl.last.raised
        /\ tbl.rows = tbl.before

\* C28: add_document called twice in a row with the same record leaves the
\* store as the first call left it: one row of that id, with the values of
\* the record.
C28_AddDocumentIdempotent ==
    (tbl.last.op = "add" /\ tbl.last.repeat) =>
        /\ tbl.rows = tbl.before
        /\ Cardinality(RowsOf(tbl.rows, tbl.last.id)) = 1
        /\ \A i \in RowsOf(tbl.rows, tbl.last.id) :
               tbl.rows[i] = [id |-> tbl.last.id, run |-> tbl.last.run,
                              status |-> tbl.last.status]

\* C28 happens: a record was added twice in a row to a table holding
\* another row
C28_Witness ==
    /\ tbl.last.op = "add"
    /\ tbl.last.repeat
    /\ Len(tbl.rows) >= 2

\* C29: get_documents_by_status returns exactly the documents of the run
\* that have the status, in the order in which add_document inserted them.
C29_ByStatusInInsertionOrder ==
    tbl.last.op = "get" =>
        LET hits == SelectSeq(tbl.rows, LAMBDA r : /\ r.run = tbl.last.run
                                                   /\ r.status = tbl.last.status)
        IN  tbl.last.result = [i \in 1..Len(hits) |-> hits[i].id]

\* C30: check_article_exists(title) returns the id of the first item, in
\* page order over all pages of the listing, that is an article (not a
\* collection) named exactly title, and none when there is no such item; it
\* stops paging after an empty page or once page * page size has reached the
\* total count.
C30_FirstArticleOfTitle ==
    kb.pc = "done" =>
        LET all == {i \in 1..Len(kb.items) : /\ kb.items[i].type = "ARTICLE"
                                             /\ kb.items[i].name = kb.title}
        IN  IF all # {}
            THEN /\ kb.result \in all
                 /\ \A i \in all : kb.result <= i
                 /\ kb.result \in PageOf(kb.items, kb.page)
            ELSE /\ kb.result = 0
                 /\ \/ kb.page = 1 /\ kb.items = <<>>
                    \/ /\ kb.page * PageSize >= Len(kb.items)
                       /\ (kb.page - 1) * PageSize < Len(kb.items)

\* C30 happens: the article was found on a later page, after a collection of
\* the same name
C30_Witness ==
    /\ kb.pc = "done"
    /\ kb.result # 0
    /\ kb.page >= 2
    /\ \E i \in 1..Len(kb.items) :
           /\ i < kb.result
           /\ kb.items[i].type = "COLLECTION"
           /\ kb.items[i].name = kb.title

\* C31: the document counts and the attachment counts get_statistics
\* returns are together the counts of one state the store was in between the
\* call and the return, whatever writes of document units fell in between.
C31_StatisticsOfOneState ==
    stat.pc = "done" => <<stat.doc_stats, stat.att_stats>> \in stat.seen

\* C32: when the references among the documents are acyclic, the work list
\* built (for any filter and any limit) has every document after each
\* document it references that is in the work list too.
C32_DependenciesFirst ==
    (ord.pc = "built" /\ Acyclic(ord.refs)) =>
        \A i, j \in 1..Len(ord.work) :
            ord.work[j] \in Range(ord.refs[ord.work[i]]) => j < i

\* C32 happens: a work list of all the documents of an acyclic index in
\* which a document references one of a higher locator
C32_Witness ==
    /\ ord.pc = "built"
    /\ Acyclic(ord.refs)
    /\ Len(ord.work) = NumNodes
    /\ \E i, j \in 1..Len(ord.work) :
           /\ ord.work[j] \in Range(ord.refs[ord.work[i]])
           /\ ord.work[j] > ord.work[i]

\* C37: get_migration_order ends, for every index of references (cycles and
\* mutual references included), with an order holding every locator exactly
\* once.
C37_OrderOfEveryLocator ==
    ord.pc # "idle" =>
        /\ ~ord.raised
        /\ Len(ord.order) = NumNodes
        /\ Range(ord.order) = Nodes

\* C33: a document is marked IN_PROGRESS only when every document of the
\* earlier batches of the work list has a terminal status and no unit or
\* error handling of an earlier batch is still under way.
C33_BatchesInOrder ==
    [][\A d \in Locators :
          (docs'[d].status = IN_PROGRESS /\ docs[d].status # IN_PROGRESS) =>
              (\A i \in 1..(batchStart - 1) :
                   (docs[work[i]].status \in Terminal /\ task[work[i]].pc = "none"))
      ]_vars

\* C33 happens: a document of the second batch is IN_PROGRESS after the
\* document of the first batch failed and its error was handled
C33_Witness ==
    /\ pc = "gather"
    /\ batchStart > 1
    /\ docs[work[batchStart]].status = IN_PROGRESS
    /\ docs[work[1]].status = FAILED

\* C34: once the shutdown flag is set, by shutdown() or by a document error
\* with continue-on-error off, no later batch is started and the documents
\* of the later batches stay PENDING.
C34_NoBatchAfterShutdown ==
    [][(shutdown /\ pc \in {"gather", "sleep"}) =>
          (/\ batchStart' \in {batchStart, 0}
           /\ \A i \in (batchStart + cfg.batch_size)..Len(work) :
                  docs'[work[i]].status = PENDING)
      ]_vars

C36_ReturnedRunIsFinalized ==
    (pc = "idle" /\ outcome = "returned" /\ cur # NoRun) =>
        /\ runs[cur.id].completed
        /\ Counters(runs[cur.id]) = Counters(cur)

\* C39: during an invocation, a document written as COMPLETED with a remote
\* id keeps that status and that id at every later step.
C39_CompletedStaysCompleted ==
    [][\A d \in Locators :
          (pc # "idle" /\ docs[d].status = COMPLETED /\ docs[d].sid # 0) =>
              (docs'[d].status = COMPLETED /\ docs'[d].sid = docs[d].sid)
      ]_vars

\* C38: when two units upload the same bytes concurrently (the second
\* starts while the first is inside its upload) and both succeed, one
\* network upload call has been made for these bytes and both units hold the
\* same URL.
C38_ConcurrentUploadsShareOneCall ==
    \A u, v \in 1..MaxUnits :
        (/\ u # v
         /\ dup.unit[u].pc = "done"
         /\ dup.unit[v].pc = "done"
         /\ dup.unit[u].hash = dup.unit[v].hash
         /\ u \in dup.unit[v].beside)
            => (/\ dup.calls[dup.unit[u].hash] = 1
                /\ dup.unit[u].url = dup.unit[v].url)

\* C40: for every rate_limit the configuration accepts, an upload that asks
\* for the gate gets through it and completes or fails.
C40_UploadPassesGate ==
    \A u \in 1..MaxUnits : (gate.unit[u] # "idle") ~> (gate.unit[u] = "done")

====
